---- MODULE Spec2Model ----
(***************************************************************************)
(* Model of PokerBraids.                                                   *)
(* crate braid-engine:                                                     *)
(*   types.rs          Generator, Seat, Action, ActionType, BraidWord      *)
(*   mapping.rs        safe_seat, expand_action                            *)
(*   normalization.rs  normalize                                           *)
(*   invariants.rs     FingerprintState and its operations                 *)
(*   tests/toy_hand.rs the action flow of the toy hand                     *)
(* crate poker-parser:                                                     *)
(*   lib.rs            SeatResolver, parse_record                          *)
(*   pokernow.rs       parse_row                                           *)
(* crate hud-bridge:                                                       *)
(*   server.rs         ServerState, process_action, handle_action,         *)
(*                     handle_ws and the broadcast channel                 *)
(*   cli.rs            process_action of the command line                  *)
(*                                                                         *)
(* The specifications of the module share its variables:                   *)
(*   Spec        a FingerprintState driven by update / update_for_seat /   *)
(*               process_action / reset;                                   *)
(*   SpecNorm    one call of normalize on an arbitrary bounded braid       *)
(*               word, one step per pass of its outer loop;                *)
(*   SpecMap     calls of safe_seat and expand_action on bounded inputs;   *)
(*   SpecSeat    update_for_seat and reset, every argument recorded;       *)
(*   SpecAct     process_action, every argument recorded;                  *)
(*   SpecFlow    an action flow expanded to a braid word and applied;      *)
(*   SpecRes     a SeatResolver fed by parse_row or by parse_record;       *)
(*   SpecServer  concurrent POST /action requests on one ServerState;      *)
(*   SpecSession one session of the CLI or of the server, row by row;      *)
(*   SpecWs      the broadcast channel and its WebSocket clients.          *)
(* SpecNormFair and SpecWsFair add the fairness under which normalize      *)
(* and the forwarding tasks make progress.                                 *)
(*                                                                         *)
(* Numbers.  The Burau matrix is a matrix of Complex<f64> built from the   *)
(* entries 0, 1, t, 1 - t, 1/t and 1 - 1/t with t = e^i.  e^i is           *)
(* transcendental, so two integer Laurent polynomials in t have the same   *)
(* value at t = e^i exactly when they are the same polynomial.  An entry   *)
(* is therefore modelled by the Laurent polynomial it is the value of      *)
(* (coefficients of t^-MaxDeg .. t^MaxDeg); the rounding of the f64        *)
(* operations is not modelled.                                             *)
(***************************************************************************)
EXTENDS Integers, Sequences, FiniteSets, TLC

\* ------------------------------------------------------------------ bounds
MaxDim == 3          \* largest dimension given to FingerprintState::new
MaxCrossings == 2    \* cap on crossing_count (generators applied since reset)
MaxWordLen == 6      \* longest braid word given to normalize
MaxGenIdx == 2       \* largest generator index in a word given to normalize
MaxSeatVal == 18     \* largest raw seat value given to safe_seat / expand_action
MaxTotal == 9        \* largest total_seats given to safe_seat / expand_action
MaxFlowLen == 5      \* most actions in an action flow (the toy hand has five)
MaxResolves == 4     \* most calls of get_or_assign_seat on one SeatResolver

\* const TOTAL_SEATS of the toy hand (tests/toy_hand.rs:18)
TOTAL_SEATS == 4

VARIABLES
    \* FingerprintState (invariants.rs:28-48)
    dimension, writhe, crossing_count, burau_matrix, player_stats,
    \* the last operation called on the FingerprintState: its name, its
    \* generator argument, its return value, dimension() before it (for new,
    \* the argument) and the counters before it
    lastOp,
    \* normalize (normalization.rs:28-69): the word on entry, the BraidWord,
    \* the local `changed`, the position in the function, the passes run
    nInput, word, changed, nPc, nPasses,
    \* safe_seat / expand_action (mapping.rs): the arguments, the function
    \* called, the seat safe_seat returned, the generators expand_action returned
    mFrom, mTo, mTotal, mPc, mSeat, mGens,
    \* the last call made on the FingerprintState with all its arguments and
    \* its return value (SpecSeat, SpecAct), and for each seat the last
    \* non-empty name passed to update_for_seat since the last reset, and
    \* for each seat argument how many Sigma and how many InverseSigma
    \* generators update_for_seat was called with since the last reset
    call, named, attributed,
    \* action flow (tests/toy_hand.rs:29-42, 68-71): the seats of the actions
    \* taken so far (the last is current_seat), the BraidWord built from
    \* them, and whether the word has been applied to the FingerprintState
    flow, braid_word, fPc,
    \* SeatResolver (poker-parser/src/lib.rs:70-74) and the calls of
    \* get_or_assign_seat made on it so far, with the seat each returned
    player_to_seat, next_seat, history,
    \* the server (hud-bridge/src/server.rs): the ServerState fields beside
    \* fingerprint and seat_resolver (current_seat, step, reset_on_fold), the
    \* holder of the RwLock's write guard, each POST /action request with its
    \* position in handle_action and its locals, and the values sent on the
    \* broadcast channel, in order
    server, lock, handler, channel,
    \* the requests whose action was parsed, in that order, each with the
    \* ServerState that results from running the actions up to it one whole
    \* action at a time; and the last such ServerState
    applied, serial,
    \* one session, of the CLI (hud-bridge/src/cli.rs) or of the server with a
    \* single client: its mode and flag, current_seat, step and the number of
    \* rows read; and what it has reported, a line of stdout or a response
    \* per processed action
    session, output,
    \* the broadcast channel and its WebSocket clients (server.rs:225-244,
    \* 288): how many responses tx.send was called with so far (a response is
    \* named by its number in that order), and for each client that
    \* subscribed the position of its forwarding task, the number of the
    \* response its receiver is at, the responses written to its socket,
    \* whether the socket accepts writes, and how many responses had been
    \* sent when it subscribed
    sent, ws

fpVars == <<dimension, writhe, crossing_count, burau_matrix, player_stats, lastOp>>
normVars == <<nInput, word, changed, nPc, nPasses>>
mapVars == <<mFrom, mTo, mTotal, mPc, mSeat, mGens>>
callVars == <<call, named, attributed>>
flowVars == <<flow, braid_word, fPc>>
resVars == <<player_to_seat, next_seat, history>>
\* the variables added to the first three groups
srvVars == <<server, lock, handler, channel, applied, serial>>
sesVars == <<session, output>>
wsVars == <<sent, ws>>
extVars == <<callVars, flowVars, resVars, srvVars, sesVars, wsVars>>
vars == <<fpVars, normVars, mapVars, extVars>>

\* ------------------------------------------------------- types.rs: values
\* enum Generator { Sigma(usize), InverseSigma(usize) }
Sigma(k) == [sign |-> "Sigma", k |-> k]
InverseSigma(k) == [sign |-> "InverseSigma", k |-> k]

\* enum ActionType
ActionType == {"Fold", "Check", "Call", "Bet", "Raise", "ReRaise", "AllIn", "Reset"}

\* Option<Seat>: None, Some(seat)
None == <<>>
Some(seat) == <<seat>>

\* ------------------------------------- mapping.rs: safe_seat, expand_action
\* mutant: the modulo taken on the 1-based seat
safe_seat_NoShift(seat, total) ==
    IF total = 0 THEN 1 ELSE (seat % total) + 1

\* seat >= 1 at every call (expand_action returns before it for a zero seat)
safe_seat(seat, total) ==
    IF total = 0 THEN 1 ELSE ((seat - 1) % total) + 1

\* mutant: a backward step emits the inverse of sigma_current
RECURSIVE ExpandLoop_SameIndex(_, _, _)
ExpandLoop_SameIndex(current, to_val, generators) ==
    IF current = to_val THEN generators
    ELSE IF current < to_val
         THEN ExpandLoop_SameIndex(current + 1, to_val,
                                   Append(generators, Sigma(current)))
         ELSE ExpandLoop_SameIndex(current - 1, to_val,
                                   Append(generators, InverseSigma(current)))

\* the while loop of expand_action: `current` walks to `to_val`
RECURSIVE ExpandLoop(_, _, _)
ExpandLoop(current, to_val, generators) ==
    IF current = to_val THEN generators
    ELSE IF current < to_val
         THEN ExpandLoop(current + 1, to_val, Append(generators, Sigma(current)))
         ELSE ExpandLoop(current - 1, to_val,
                         Append(generators, InverseSigma(current - 1)))

\* mutant: the seats are used as given, without safe_seat
expand_action_NoMapping(from, to, total_seats) ==
    IF from = 0 \/ to = 0 THEN <<>>
    ELSE IF from = to THEN <<>>
    ELSE ExpandLoop(from, to, <<>>)

expand_action(from, to, total_seats) ==
    IF from = 0 \/ to = 0 THEN <<>>
    ELSE LET from_val == safe_seat(from, total_seats)
             to_val == safe_seat(to, total_seats)
         IN IF from_val = to_val THEN <<>>
            ELSE ExpandLoop(from_val, to_val, <<>>)

\* ------------------------------------------------ normalization.rs: normalize
\* mutant: only the arm (Sigma(k1), InverseSigma(k2))
are_inverses_OneWay(current, next) ==
    /\ current.sign = "Sigma"
    /\ next.sign = "InverseSigma"
    /\ current.k = next.k

\* mutant: the arms do not compare k1 and k2
are_inverses_AnyIndex(current, next) ==
    current.sign # next.sign

\* (Sigma(k1), InverseSigma(k2)) | (InverseSigma(k1), Sigma(k2)) => k1 == k2
are_inverses(current, next) ==
    /\ current.sign # next.sign
    /\ current.k = next.k

\* mutant: the look-ahead guard is i < generators.len() - 2
RECURSIVE PassLoop_StopsEarly(_, _, _, _)
PassLoop_StopsEarly(generators, i, new_generators, ch) ==
    IF ~(i < Len(generators)) THEN [gens |-> new_generators, changed |-> ch]
    ELSE IF i < Len(generators) - 2
            /\ are_inverses(generators[i + 1], generators[i + 2])
         THEN PassLoop_StopsEarly(generators, i + 2, new_generators, TRUE)
         ELSE PassLoop_StopsEarly(generators, i + 1,
                                  Append(new_generators, generators[i + 1]), ch)

\* the inner while loop of one pass: index i (0-based) over `generators`,
\* new_generators and changed accumulated; returns the two at loop exit
RECURSIVE PassLoop(_, _, _, _)
PassLoop(generators, i, new_generators, ch) ==
    IF ~(i < Len(generators)) THEN [gens |-> new_generators, changed |-> ch]
    ELSE IF i < Len(generators) - 1
            /\ are_inverses(generators[i + 1], generators[i + 2])
         THEN PassLoop(generators, i + 2, new_generators, TRUE)
         ELSE PassLoop(generators, i + 1,
                       Append(new_generators, generators[i + 1]), ch)

\* mutant: every pass reports a change
NormalizePass_AlwaysChanged(generators) ==
    [gens |-> PassLoop(generators, 0, <<>>, FALSE).gens, changed |-> TRUE]

\* mutant: a removal does not set `changed`
NormalizePass_NoFlag(generators) ==
    [gens |-> PassLoop(generators, 0, <<>>, FALSE).gens, changed |-> FALSE]

\* one iteration of `while changed`
NormalizePass(generators) == PassLoop(generators, 0, <<>>, FALSE)

\* mutant: a single pass is made
normalize_OnePass(w) == NormalizePass(w).gens

\* the whole function: passes until one removes nothing
RECURSIVE normalize(_)
normalize(w) ==
    LET r == NormalizePass(w)
    IN IF r.changed THEN normalize(r.gens) ELSE r.gens

\* ------------------------------------- Complex<f64> as Laurent polynomials
\* every generator applied raises the degree in t and in 1/t by at most one;
\* two more for a product formed from a state at the cap
MaxDeg == MaxCrossings + 2
Exps == (0 - MaxDeg)..MaxDeg

\* Complex::new(c, 0.0)
Scalar(c) == [e \in Exps |-> IF e = 0 THEN c ELSE 0]
\* self.t_param = e^(i * 1.0), set once in new() and never written again
t_param == [e \in Exps |-> IF e = 1 THEN 1 ELSE 0]
\* Complex::new(1.0, 0.0) / self.t_param
one_over_t == [e \in Exps |-> IF e = -1 THEN 1 ELSE 0]

CAdd(p, q) == [e \in Exps |-> p[e] + q[e]]
CSub(p, q) == [e \in Exps |-> p[e] - q[e]]
\* the coefficient of t^e in p * q: sum over i >= lo of p[i] * q[e - i]
RECURSIVE Conv(_, _, _, _)
Conv(p, q, e, i) ==
    IF i > MaxDeg THEN 0
    ELSE (IF p[i] # 0 /\ (e - i) \in Exps THEN p[i] * q[e - i] ELSE 0)
         + Conv(p, q, e, i + 1)

\* Complex::new(0.0, 0.0), Complex::new(1.0, 0.0)
CZero == Scalar(0)
COne == Scalar(1)

\* p * q (products by 0 and by 1 taken directly)
CMul(p, q) ==
    IF p = CZero \/ q = CZero THEN CZero
    ELSE IF q = COne THEN p
    ELSE IF p = COne THEN q
    ELSE [e \in Exps |-> Conv(p, q, e, 0 - MaxDeg)]

\* ---------------------------------------------- DMatrix<Complex<f64>>
Idx(d) == 0..(d - 1)

\* DMatrix::identity(d, d)
Identity(d) == [i \in Idx(d) |-> [j \in Idx(d) |-> IF i = j THEN COne ELSE CZero]]

RECURSIVE DotFrom(_, _, _, _, _, _)
DotFrom(A, B, i, j, k, d) ==
    IF k = d THEN CZero
    ELSE CAdd(CMul(A[i][k], B[k][j]), DotFrom(A, B, i, j, k + 1, d))

\* &A * &B
MatMul(A, B, d) == [i \in Idx(d) |-> [j \in Idx(d) |-> DotFrom(A, B, i, j, 0, d)]]

\* self.burau_matrix.diagonal().iter().sum(): the trace whose norm
\* burau_trace_magnitude() returns
RECURSIVE TraceFrom(_, _, _)
TraceFrom(M, k, d) == IF k = d THEN CZero ELSE CAdd(M[k][k], TraceFrom(M, k + 1, d))
burau_trace(M, d) == TraceFrom(M, 0, d)

\* mutant: the block set at (k, k+1), k taken as a 0-based index
SigmaMatrix_OffByOne(k, d) ==
    LET i == k
        j == k + 1
        u_k == Identity(d)
    IN [r \in Idx(d) |-> [c \in Idx(d) |->
          IF r = i /\ c = i THEN CSub(COne, t_param)
          ELSE IF r = i /\ c = j THEN t_param
          ELSE IF r = j /\ c = i THEN COne
          ELSE IF r = j /\ c = j THEN CZero
          ELSE u_k[r][c]]]

\* u_k of apply_sigma_matrix: identity except the block at (k-1, k)
SigmaMatrix(k, d) ==
    LET i == k - 1
        j == k
        u_k == Identity(d)
    IN [r \in Idx(d) |-> [c \in Idx(d) |->
          IF r = i /\ c = i THEN CSub(COne, t_param)
          ELSE IF r = i /\ c = j THEN t_param
          ELSE IF r = j /\ c = i THEN COne
          ELSE IF r = j /\ c = j THEN CZero
          ELSE u_k[r][c]]]

\* mutant: the (k, k) entry is 1 - t instead of 1 - 1/t
InverseSigmaMatrix_WrongCorner(k, d) ==
    LET i == k - 1
        j == k
        u_k == Identity(d)
    IN [r \in Idx(d) |-> [c \in Idx(d) |->
          IF r = i /\ c = i THEN CZero
          ELSE IF r = i /\ c = j THEN COne
          ELSE IF r = j /\ c = i THEN one_over_t
          ELSE IF r = j /\ c = j THEN CSub(COne, t_param)
          ELSE u_k[r][c]]]

\* u_k_inv of apply_inverse_sigma_matrix
InverseSigmaMatrix(k, d) ==
    LET i == k - 1
        j == k
        u_k == Identity(d)
    IN [r \in Idx(d) |-> [c \in Idx(d) |->
          IF r = i /\ c = i THEN CZero
          ELSE IF r = i /\ c = j THEN COne
          ELSE IF r = j /\ c = i THEN one_over_t
          ELSE IF r = j /\ c = j THEN CSub(COne, one_over_t)
          ELSE u_k[r][c]]]

\* the matrix after apply_sigma_matrix(k) on matrix M of dimension d
apply_sigma_matrix(M, k, d) ==
    IF k = 0 \/ k >= d THEN M
    ELSE MatMul(M, SigmaMatrix(k, d), d)

\* the matrix after apply_inverse_sigma_matrix(k)
apply_inverse_sigma_matrix(M, k, d) ==
    IF k = 0 \/ k >= d THEN M
    ELSE MatMul(M, InverseSigmaMatrix(k, d), d)

\* ------------------------------------------ invariants.rs: FingerprintState
\* A state value st is a record of the fields of the struct.
\* jones_poly_cache is None from new() on and is written nowhere.

\* FingerprintState::new(dimension)
new(d) ==
    [writhe |-> 0, crossing_count |-> 0, burau_matrix |-> Identity(d),
     dimension |-> d, player_stats |-> <<>>]

\* mutant: player_stats is not cleared
reset_KeepsStats(st) ==
    [st EXCEPT !.writhe = 0, !.crossing_count = 0,
               !.burau_matrix = Identity(st.dimension)]

\* reset(&mut self)
reset(st) ==
    [st EXCEPT !.writhe = 0, !.crossing_count = 0,
               !.burau_matrix = Identity(st.dimension),
               !.player_stats = <<>>]

\* mutant: an index outside [1, dimension-1] returns before the counters
update_SkipsInvalid(st, gen) ==
    IF gen.k = 0 \/ gen.k >= st.dimension THEN st
    ELSE IF gen.sign = "Sigma"
    THEN [st EXCEPT !.writhe = st.writhe + 1,
                    !.burau_matrix = apply_sigma_matrix(st.burau_matrix, gen.k, st.dimension),
                    !.crossing_count = st.crossing_count + 1]
    ELSE [st EXCEPT !.writhe = st.writhe - 1,
                    !.burau_matrix =
                        apply_inverse_sigma_matrix(st.burau_matrix, gen.k, st.dimension),
                    !.crossing_count = st.crossing_count + 1]

\* mutant: crossing_count is not incremented
update_NoCount(st, gen) ==
    IF gen.sign = "Sigma"
    THEN [st EXCEPT !.writhe = st.writhe + 1,
                    !.burau_matrix = apply_sigma_matrix(st.burau_matrix, gen.k, st.dimension)]
    ELSE [st EXCEPT !.writhe = st.writhe - 1,
                    !.burau_matrix =
                        apply_inverse_sigma_matrix(st.burau_matrix, gen.k, st.dimension)]

\* IncrementalUpdate::update(&mut self, gen)
update(st, gen) ==
    IF gen.sign = "Sigma"
    THEN [st EXCEPT !.writhe = st.writhe + 1,
                    !.burau_matrix = apply_sigma_matrix(st.burau_matrix, gen.k, st.dimension),
                    !.crossing_count = st.crossing_count + 1]
    ELSE [st EXCEPT !.writhe = st.writhe - 1,
                    !.burau_matrix =
                        apply_inverse_sigma_matrix(st.burau_matrix, gen.k, st.dimension),
                    !.crossing_count = st.crossing_count + 1]

\* mutant: the seat's writhe is raised whatever the generator
SeatMetrics_AlwaysPlus(st1, gen, seat, name) ==
    LET old == IF seat \in DOMAIN st1.player_stats
               THEN st1.player_stats[seat]
               ELSE [name |-> name, writhe |-> 0, complexity |-> CZero]
        seat_index == seat - 1
    IN [name |-> IF name # "" THEN name ELSE old.name,
        writhe |-> old.writhe + 1,
        complexity |-> IF seat_index < st1.dimension
                       THEN st1.burau_matrix[seat_index][seat_index]
                       ELSE old.complexity]

\* mutant: the supplied name is stored even when it is empty
SeatMetrics_AlwaysOverwrites(st1, gen, seat, name) ==
    LET old == IF seat \in DOMAIN st1.player_stats
               THEN st1.player_stats[seat]
               ELSE [name |-> name, writhe |-> 0, complexity |-> CZero]
        seat_index == seat - 1
    IN [name |-> name,
        writhe |-> IF gen.sign = "Sigma" THEN old.writhe + 1 ELSE old.writhe - 1,
        complexity |-> IF seat_index < st1.dimension
                       THEN st1.burau_matrix[seat_index][seat_index]
                       ELSE old.complexity]

\* HashMap::entry(seat).or_insert_with(..), then the writes to the entry.
\* complexity is the norm of the diagonal entry; the entry is kept.
SeatMetrics(st1, gen, seat, name) ==
    LET old == IF seat \in DOMAIN st1.player_stats
               THEN st1.player_stats[seat]
               ELSE [name |-> name, writhe |-> 0, complexity |-> CZero]
        seat_index == seat - 1
    IN [name |-> IF name # "" THEN name ELSE old.name,
        writhe |-> IF gen.sign = "Sigma" THEN old.writhe + 1 ELSE old.writhe - 1,
        complexity |-> IF seat_index < st1.dimension
                       THEN st1.burau_matrix[seat_index][seat_index]
                       ELSE old.complexity]

\* mutant: the range check tests seat == 0 only
update_for_seat_ZeroOnly(st, gen, seat, name) ==
    LET st1 == update(st, gen)
    IN IF seat = 0 THEN st1
       ELSE [st1 EXCEPT !.player_stats =
                [s \in (DOMAIN st1.player_stats) \cup {seat} |->
                    IF s = seat THEN SeatMetrics(st1, gen, seat, name)
                    ELSE st1.player_stats[s]]]

\* update_for_seat(&mut self, gen, seat, name)
update_for_seat(st, gen, seat, name) ==
    LET st1 == update(st, gen)
    IN IF seat = 0 \/ seat > st1.dimension THEN st1
       ELSE [st1 EXCEPT !.player_stats =
                [s \in (DOMAIN st1.player_stats) \cup {seat} |->
                    IF s = seat THEN SeatMetrics(st1, gen, seat, name)
                    ELSE st1.player_stats[s]]]

\* mutant: the loop stops after the first generator
ApplyAll_FirstOnly(st, generators) ==
    IF generators = <<>> THEN st
    ELSE update(st, Head(generators))

\* for gen in &generators { self.update(gen) }
RECURSIVE ApplyAll(_, _)
ApplyAll(st, generators) ==
    IF generators = <<>> THEN st
    ELSE ApplyAll(update(st, Head(generators)), Tail(generators))

\* mutant: the movement always starts at the action's own seat
ActionGenerators_FromOwnSeat(st, action, current_seat) ==
    expand_action(action.seat, action.seat, st.dimension)

\* let generators = expand_action(current_seat.unwrap_or(action.seat), ..)
ActionGenerators(st, action, current_seat) ==
    LET from_seat == IF current_seat = None THEN action.seat ELSE current_seat[1]
    IN expand_action(from_seat, action.seat, st.dimension)

\* mutant: no early return for the Reset kind
process_action_ExpandsReset(st, action, current_seat) ==
    LET generators == ActionGenerators(st, action, current_seat)
    IN [st |-> ApplyAll(st, generators), ret |-> Len(generators)]

\* process_action(&mut self, action, current_seat): state after and return value
process_action(st, action, current_seat) ==
    IF action.action_type = "Reset"
    THEN [st |-> reset(st), ret |-> 0]
    ELSE LET generators == ActionGenerators(st, action, current_seat)
         IN [st |-> ApplyAll(st, generators), ret |-> Len(generators)]

\* ------------------------------------------------ Spec: a FingerprintState
FpState ==
    [writhe |-> writhe, crossing_count |-> crossing_count,
     burau_matrix |-> burau_matrix, dimension |-> dimension,
     player_stats |-> player_stats]

SetFpState(st) ==
    /\ writhe' = st.writhe
    /\ crossing_count' = st.crossing_count
    /\ burau_matrix' = st.burau_matrix
    /\ dimension' = st.dimension
    /\ player_stats' = st.player_stats

\* lastOp: the operation, its generator argument (NoGen if it has none), the
\* kind of its action argument ("None" if it has none), its return value (0 if
\* it returns nothing), and what the state was before it
NoGen == [sign |-> "None", k |-> 0]
Pre ==
    [writhe |-> writhe, crossing_count |-> crossing_count,
     tracked |-> Cardinality(DOMAIN player_stats)]
Op(op, gen, ret) ==
    [op |-> op, gen |-> gen, kind |-> "None", ret |-> ret, dim |-> dimension, pre |-> Pre]

\* inputs
Dims == 1..MaxDim
GenInputs == {Sigma(k) : k \in 0..dimension} \cup {InverseSigma(k) : k \in 0..dimension}
SeatArgs == 0..(dimension + 1)
Names == {"", "Alex", "Alex [S1]"}
SeatValues == 1..(dimension + 1)
Actions == [seat : SeatValues, action_type : {"Raise", "Reset"}, amount : {0}]
CurrentSeats == {None} \cup {Some(s) : s \in SeatValues}

\* the other specifications' variables, idle
NormIdle ==
    /\ nInput = <<>> /\ word = <<>> /\ changed = FALSE /\ nPc = "idle" /\ nPasses = 0
MapIdle ==
    /\ mFrom = 0 /\ mTo = 0 /\ mTotal = 0 /\ mPc = "idle" /\ mSeat = 0 /\ mGens = <<>>
FpIdle ==
    /\ dimension = 0 /\ writhe = 0 /\ crossing_count = 0
    /\ burau_matrix = <<>> /\ player_stats = <<>>
    /\ lastOp = [op |-> "idle", gen |-> NoGen, kind |-> "None", ret |-> 0, dim |-> 0,
                 pre |-> [writhe |-> 0, crossing_count |-> 0, tracked |-> 0]]

CallIdle ==
    /\ call = [op |-> "idle"] /\ named = <<>> /\ attributed = <<>>
FlowIdle ==
    /\ flow = <<>> /\ braid_word = <<>> /\ fPc = "idle"
ResIdle ==
    /\ player_to_seat = <<>> /\ next_seat = 0 /\ history = <<>>
SrvIdle ==
    /\ server = <<>> /\ lock = None /\ handler = <<>>
    /\ channel = <<>> /\ applied = <<>> /\ serial = <<>>
SesIdle == session = <<>> /\ output = <<>>
WsIdle == sent = 0 /\ ws = <<>>
ExtIdle == CallIdle /\ FlowIdle /\ ResIdle /\ SrvIdle /\ SesIdle /\ WsIdle

Init ==
    /\ \E d \in Dims :
          /\ dimension = new(d).dimension
          /\ writhe = new(d).writhe
          /\ crossing_count = new(d).crossing_count
          /\ burau_matrix = new(d).burau_matrix
          /\ player_stats = new(d).player_stats
          /\ lastOp = [op |-> "new", gen |-> NoGen, kind |-> "None", ret |-> 0, dim |-> d,
                       pre |-> [writhe |-> 0, crossing_count |-> 0, tracked |-> 0]]
    /\ NormIdle
    /\ MapIdle
    /\ ExtIdle

UpdateOp(g) ==
    /\ crossing_count < MaxCrossings
    /\ SetFpState(update(FpState, g))
    /\ lastOp' = Op("update", g, 0)
    /\ UNCHANGED <<normVars, mapVars, extVars>>

UpdateForSeatOp(g, seat, name) ==
    /\ crossing_count < MaxCrossings
    /\ SetFpState(update_for_seat(FpState, g, seat, name))
    /\ lastOp' = Op("update_for_seat", g, 0)
    /\ UNCHANGED <<normVars, mapVars, extVars>>

ProcessActionOp(action, current_seat) ==
    LET r == process_action(FpState, action, current_seat)
    IN /\ action.action_type # "Reset" =>
             crossing_count + Len(ActionGenerators(FpState, action, current_seat))
               <= MaxCrossings
       /\ SetFpState(r.st)
       /\ lastOp' = [Op("process_action", NoGen, r.ret) EXCEPT !.kind = action.action_type]
       /\ UNCHANGED <<normVars, mapVars, extVars>>

Update == \E g \in GenInputs : UpdateOp(g)

\* per-seat tracking is explored for the crossing that reaches the cap
UpdateForSeat ==
    /\ crossing_count + 1 = MaxCrossings
    /\ \E g \in GenInputs, seat \in SeatArgs, name \in Names : UpdateForSeatOp(g, seat, name)

ProcessAction ==
    \E action \in Actions, current_seat \in CurrentSeats : ProcessActionOp(action, current_seat)

Reset ==
    /\ SetFpState(reset(FpState))
    /\ lastOp' = Op("reset", NoGen, 0)
    /\ UNCHANGED <<normVars, mapVars, extVars>>

Next == Update \/ UpdateForSeat \/ ProcessAction \/ Reset

Spec == Init /\ [][Next]_vars

\* --------------------------------------------- SpecNorm: a call of normalize
NormGens == {Sigma(k) : k \in 1..MaxGenIdx} \cup {InverseSigma(k) : k \in 1..MaxGenIdx}
Words == UNION {[1..n -> NormGens] : n \in 0..MaxWordLen}

\* entry of normalize(word): let mut changed = true
InitNorm ==
    /\ nInput \in Words
    /\ word = nInput
    /\ changed = TRUE
    /\ nPc = "loop"
    /\ nPasses = 0
    /\ FpIdle
    /\ MapIdle
    /\ ExtIdle

\* while changed { changed = false; ...; word.replace_generators(new_generators) }
NormPass ==
    /\ nPc = "loop"
    /\ changed
    /\ LET r == NormalizePass(word)
       IN /\ word' = r.gens
          /\ changed' = r.changed
    /\ nPasses' = nPasses + 1
    /\ UNCHANGED <<nInput, nPc, fpVars, mapVars, extVars>>

\* the loop condition fails: normalize returns
NormReturn ==
    /\ nPc = "loop"
    /\ ~changed
    /\ nPc' = "done"
    /\ UNCHANGED <<nInput, word, changed, nPasses, fpVars, mapVars, extVars>>

NextNorm == NormPass \/ NormReturn

SpecNorm == InitNorm /\ [][NextNorm]_vars

\* normalize is one sequential call: the thread that entered the loop keeps
\* running it, so a pass or the return that is possible is eventually taken
SpecNormFair == SpecNorm /\ WF_vars(NextNorm)

\* ------------------------------- SpecMap: calls of safe_seat, expand_action
InitMap ==
    /\ mFrom \in 0..MaxSeatVal
    /\ mTo \in 0..MaxSeatVal
    /\ mTotal \in 0..MaxTotal
    /\ mPc = "ready"
    /\ mSeat = 0
    /\ mGens = <<>>
    /\ FpIdle
    /\ NormIdle
    /\ ExtIdle

\* safe_seat(mFrom, mTotal); its callers pass seats >= 1
SafeSeatCall ==
    /\ mPc = "ready"
    /\ mFrom >= 1
    /\ mSeat' = safe_seat(mFrom, mTotal)
    /\ mPc' = "safe_seat"
    /\ UNCHANGED <<mFrom, mTo, mTotal, mGens, fpVars, normVars, extVars>>

\* expand_action(Seat(mFrom), Seat(mTo), mTotal)
ExpandActionCall ==
    /\ mPc = "ready"
    /\ mGens' = expand_action(mFrom, mTo, mTotal)
    /\ mPc' = "expand_action"
    /\ UNCHANGED <<mFrom, mTo, mTotal, mSeat, fpVars, normVars, extVars>>

\* FingerprintState::new(mTotal).process_action(action of Seat(mTo),
\* Some(Seat(mFrom))); a Seat holds a value >= 1
MapProcessAction ==
    /\ mPc = "ready"
    /\ mFrom >= 1 /\ mTo >= 1 /\ mTotal >= 1
    /\ LET st == new(mTotal)
           action == [seat |-> mTo, action_type |-> "Raise", amount |-> 0]
       IN /\ Len(ActionGenerators(st, action, Some(mFrom))) <= MaxCrossings
          /\ SetFpState(process_action(st, action, Some(mFrom)).st)
    /\ mPc' = "process_action"
    /\ UNCHANGED <<mFrom, mTo, mTotal, mSeat, mGens, lastOp, normVars, extVars>>

NextMap == SafeSeatCall \/ ExpandActionCall \/ MapProcessAction

SpecMap == InitMap /\ [][NextMap]_vars

\* ------------------- SpecSeat: per-seat tracking, calls of update_for_seat
\* A FingerprintState driven by update_for_seat and reset; `call` holds the
\* arguments of the last call, `named` the last non-empty name each seat in
\* [1, dimension] was given since the last reset, `attributed` the
\* generators each seat argument was given since the last reset.
SeatGens == {Sigma(1), InverseSigma(1)}
NoNames == [s \in 1..dimension |-> ""]
NoAttribution == [s \in 0..(dimension + 1) |-> [sigma |-> 0, inverse |-> 0]]

InitSeat ==
    /\ \E d \in Dims :
          /\ dimension = new(d).dimension
          /\ writhe = new(d).writhe
          /\ crossing_count = new(d).crossing_count
          /\ burau_matrix = new(d).burau_matrix
          /\ player_stats = new(d).player_stats
          /\ lastOp = [op |-> "new", gen |-> NoGen, kind |-> "None", ret |-> 0, dim |-> d,
                       pre |-> [writhe |-> 0, crossing_count |-> 0, tracked |-> 0]]
          /\ named = [s \in 1..d |-> ""]
          /\ attributed = [s \in 0..(d + 1) |-> [sigma |-> 0, inverse |-> 0]]
    /\ call = [op |-> "new"]
    /\ NormIdle
    /\ MapIdle
    /\ FlowIdle
    /\ ResIdle
    /\ SrvIdle
    /\ SesIdle
    /\ WsIdle

UpdateForSeatCall(g, seat, name) ==
    /\ crossing_count < MaxCrossings
    /\ SetFpState(update_for_seat(FpState, g, seat, name))
    /\ call' = [op |-> "update_for_seat", gen |-> g, seat |-> seat, name |-> name]
    /\ named' = IF seat \in 1..dimension /\ name # ""
                THEN [named EXCEPT ![seat] = name]
                ELSE named
    /\ attributed' = IF g.sign = "Sigma"
                     THEN [attributed EXCEPT ![seat].sigma = @ + 1]
                     ELSE [attributed EXCEPT ![seat].inverse = @ + 1]
    /\ UNCHANGED <<lastOp, normVars, mapVars, flowVars, resVars, srvVars, sesVars, wsVars>>

SeatTrack ==
    \E g \in SeatGens, seat \in SeatArgs, name \in Names : UpdateForSeatCall(g, seat, name)

SeatReset ==
    /\ SetFpState(reset(FpState))
    /\ call' = [op |-> "reset"]
    /\ named' = NoNames
    /\ attributed' = NoAttribution
    /\ UNCHANGED <<lastOp, normVars, mapVars, flowVars, resVars, srvVars, sesVars, wsVars>>

NextSeat == SeatTrack \/ SeatReset

SpecSeat == InitSeat /\ [][NextSeat]_vars

\* ------------------------------- SpecAct: calls of process_action
\* A FingerprintState driven by process_action, with seat 1 tracked by
\* update_for_seat calls so that the per-seat map is not empty; `call` holds
\* the action, the current_seat passed, the value returned and the counters
\* before the call.
ProcessActionCall(action, current_seat) ==
    LET r == process_action(FpState, action, current_seat)
    IN /\ action.action_type # "Reset" =>
             crossing_count + Len(ActionGenerators(FpState, action, current_seat))
               <= MaxCrossings
       /\ SetFpState(r.st)
       /\ call' = [op |-> "process_action", action |-> action,
                   current_seat |-> current_seat, ret |-> r.ret, pre |-> Pre]
       /\ named' = IF action.action_type = "Reset" THEN NoNames ELSE named
       /\ attributed' = IF action.action_type = "Reset" THEN NoAttribution ELSE attributed
       /\ UNCHANGED <<lastOp, normVars, mapVars, flowVars, resVars, srvVars, sesVars, wsVars>>

ActProcess ==
    \E action \in Actions, current_seat \in CurrentSeats :
        ProcessActionCall(action, current_seat)

\* seat 1 is the seat tracked
ActTrack == \E seat \in {1} : UpdateForSeatCall(Sigma(1), seat, "Alex")

NextAct == ActProcess \/ ActTrack

SpecAct == InitSeat /\ [][NextAct]_vars

\* ------------------------ SpecFlow: an action flow (tests/toy_hand.rs)
\* The action "flows" from one seat to the next: each action after the first
\* appends expand_action(current_seat, action.seat, T) to the braid word; the
\* word is then applied, generator by generator, to FingerprintState::new(T).
\* Along a flow the matrix entries have degree at most T <= MaxDeg.
FlowTotals == 1..TOTAL_SEATS
FlowSeats == 1..(dimension + 1)

InitFlow ==
    /\ \E T \in FlowTotals :
          /\ dimension = new(T).dimension
          /\ writhe = new(T).writhe
          /\ crossing_count = new(T).crossing_count
          /\ burau_matrix = new(T).burau_matrix
          /\ player_stats = new(T).player_stats
          /\ lastOp = [op |-> "new", gen |-> NoGen, kind |-> "None", ret |-> 0, dim |-> T,
                       pre |-> [writhe |-> 0, crossing_count |-> 0, tracked |-> 0]]
          /\ flow \in {<<s0>> : s0 \in 1..(T + 1)}
    /\ braid_word = <<>>
    /\ fPc = "build"
    /\ NormIdle
    /\ MapIdle
    /\ CallIdle
    /\ ResIdle
    /\ SrvIdle
    /\ SesIdle
    /\ WsIdle

\* one iteration of `for action in &actions[1..]`
FlowStep(target_seat) ==
    /\ fPc = "build"
    /\ Len(flow) < MaxFlowLen
    /\ LET current_seat == flow[Len(flow)]
       IN braid_word' = braid_word \o expand_action(current_seat, target_seat, dimension)
    /\ flow' = Append(flow, target_seat)
    /\ UNCHANGED <<fPc, fpVars, normVars, mapVars, callVars, resVars, srvVars, sesVars, wsVars>>

FlowAction == \E target_seat \in FlowSeats : FlowStep(target_seat)

\* for gen in braid_word.iter() { fingerprint.update(gen) }
FlowApply ==
    /\ fPc = "build"
    /\ SetFpState(ApplyAll(FpState, braid_word))
    /\ fPc' = "applied"
    /\ UNCHANGED <<flow, braid_word, lastOp, normVars, mapVars, callVars, resVars, srvVars, sesVars, wsVars>>

\* normalize(&mut braid_word)
FlowNormalize ==
    /\ fPc = "build"
    /\ braid_word' = normalize(braid_word)
    /\ fPc' = "normalized"
    /\ UNCHANGED <<flow, fpVars, normVars, mapVars, callVars, resVars, srvVars, sesVars, wsVars>>

NextFlow == FlowAction \/ FlowApply \/ FlowNormalize

SpecFlow == InitFlow /\ [][NextFlow]_vars

\* ------------------------ poker-parser: player ids and the SeatResolver
\* Strings are TLA+ strings; Len, SubSeq and \o act on their characters.

\* str::trim() (leading and trailing spaces)
RECURSIVE trim_start(_)
trim_start(str) ==
    IF Len(str) > 0 /\ SubSeq(str, 1, 1) = " "
    THEN trim_start(SubSeq(str, 2, Len(str)))
    ELSE str
RECURSIVE trim_end(_)
trim_end(str) ==
    IF Len(str) > 0 /\ SubSeq(str, Len(str), Len(str)) = " "
    THEN trim_end(SubSeq(str, 1, Len(str) - 1))
    ELSE str
trim(str) == trim_end(trim_start(str))

\* str::ends_with(suffix)
ends_with(str, suffix) ==
    /\ Len(suffix) <= Len(str)
    /\ SubSeq(str, Len(str) - Len(suffix) + 1, Len(str)) = suffix

\* str.split('_').last(): what follows the last '_', the whole string if
\* there is none (it is always Some)
RECURSIVE split_last(_, _)
split_last(str, i) ==
    IF i = 0 THEN str
    ELSE IF SubSeq(str, i, i) = "_" THEN SubSeq(str, i + 1, Len(str))
    ELSE split_last(str, i - 1)

\* parse_row, player id generation from the captures `name` and `id`
\* (pokernow.rs:64-79): "name_id", or "name_generated" without an id
player_id_of(name, id) ==
    IF id # None /\ trim(id[1]) # ""
    THEN trim(name) \o "_" \o trim(id[1])
    ELSE trim(name) \o "_generated"

\* SeatResolver::new()
SeatResolverNew == [player_to_seat |-> <<>>, next_seat |-> 1]

\* mutant: a rename leaves the old player id in the map
get_or_assign_seat_KeepsOld(r, player_id_arg) ==
    LET player_id == trim(player_id_arg)
        id_part == split_last(player_id, Len(player_id))
        matching == {existing_id \in DOMAIN r.player_to_seat :
                        /\ ends_with(existing_id, "_" \o id_part)
                        /\ existing_id # player_id}
    IN IF player_id \in DOMAIN r.player_to_seat
       THEN {[r |-> r, seat |-> r.player_to_seat[player_id]]}
       ELSE IF matching # {}
       THEN {[r |-> [r EXCEPT !.player_to_seat =
                        [x \in DOMAIN r.player_to_seat \cup {player_id} |->
                            IF x = player_id THEN r.player_to_seat[old_id]
                            ELSE r.player_to_seat[x]]],
              seat |-> r.player_to_seat[old_id]] : old_id \in matching}
       ELSE {[r |-> [player_to_seat |->
                        [x \in DOMAIN r.player_to_seat \cup {player_id} |->
                            IF x = player_id THEN r.next_seat ELSE r.player_to_seat[x]],
                     next_seat |-> r.next_seat + 1],
              seat |-> r.next_seat]}

\* get_or_assign_seat(&mut self, player_id): the possible outcomes, each the
\* resolver after the call and the Seat returned.  The HashMap is iterated
\* in an unspecified order, so the entry the search stops at is any entry
\* that matches.
get_or_assign_seat(r, player_id_arg) ==
    LET player_id == trim(player_id_arg)
        id_part == split_last(player_id, Len(player_id))
        matching == {existing_id \in DOMAIN r.player_to_seat :
                        /\ ends_with(existing_id, "_" \o id_part)
                        /\ existing_id # player_id}
    IN IF player_id \in DOMAIN r.player_to_seat
       THEN {[r |-> r, seat |-> r.player_to_seat[player_id]]}
       ELSE IF matching # {}
       THEN {[r |-> [r EXCEPT !.player_to_seat =
                        [x \in (DOMAIN r.player_to_seat \ {old_id}) \cup {player_id} |->
                            IF x = player_id THEN r.player_to_seat[old_id]
                            ELSE r.player_to_seat[x]]],
              seat |-> r.player_to_seat[old_id]] : old_id \in matching}
       ELSE {[r |-> [player_to_seat |->
                        [x \in DOMAIN r.player_to_seat \cup {player_id} |->
                            IF x = player_id THEN r.next_seat ELSE r.player_to_seat[x]],
                     next_seat |-> r.next_seat + 1],
              seat |-> r.next_seat]}

\* SeatResolver::player_count()
player_count(r) == Cardinality(DOMAIN r.player_to_seat)

\* SeatResolver::max_seat()
max_seat(r) == r.next_seat - 1

\* ----------------------------------- SpecRes: one SeatResolver in a session
\* Player ids reach get_or_assign_seat from parse_row (PokerNow rows:
\* cli.rs:70-72, server.rs:177-178) or from parse_record (generic CSV
\* records, whose first field is the id as written: lib.rs:27-32).  A
\* session reads one format (cli.rs:59): every call of a session comes
\* from the same of the two.
RowNames == {"Alice", "Bob"}
RowIds == {None, Some("p1"), Some("p2")}
RecordIds == {"Alice", " Alice ", "p1", "Bob_p1"}

Resolver == [player_to_seat |-> player_to_seat, next_seat |-> next_seat]

InitRes ==
    /\ player_to_seat = SeatResolverNew.player_to_seat
    /\ next_seat = SeatResolverNew.next_seat
    /\ history = <<>>
    /\ FpIdle
    /\ NormIdle
    /\ MapIdle
    /\ CallIdle
    /\ FlowIdle
    /\ SrvIdle
    /\ SesIdle
    /\ WsIdle

\* a PokerNow row with captures name, id: parse_row, then get_or_assign_seat
ResolveRow(name, id) ==
    /\ Len(history) < MaxResolves
    /\ \A i \in 1..Len(history) : history[i].via = "parse_row"
    /\ \E out \in get_or_assign_seat(Resolver, player_id_of(name, id)) :
          /\ player_to_seat' = out.r.player_to_seat
          /\ next_seat' = out.r.next_seat
          /\ history' = Append(history,
                [via |-> "parse_row", player |-> <<name, id>>,
                 player_id |-> player_id_of(name, id), seat |-> out.seat])
    /\ UNCHANGED <<fpVars, normVars, mapVars, callVars, flowVars, srvVars, sesVars, wsVars>>

\* a generic CSV record with first field player_id: parse_record
ResolveRecord(player_id) ==
    /\ Len(history) < MaxResolves
    /\ \A i \in 1..Len(history) : history[i].via = "parse_record"
    /\ \E out \in get_or_assign_seat(Resolver, player_id) :
          /\ player_to_seat' = out.r.player_to_seat
          /\ next_seat' = out.r.next_seat
          /\ history' = Append(history,
                [via |-> "parse_record", player |-> <<player_id>>,
                 player_id |-> player_id, seat |-> out.seat])
    /\ UNCHANGED <<fpVars, normVars, mapVars, callVars, flowVars, srvVars, sesVars, wsVars>>

ParseRow == \E name \in RowNames, id \in RowIds : ResolveRow(name, id)
ParseRecord == \E player_id \in RecordIds : ResolveRecord(player_id)

NextRes == ParseRow \/ ParseRecord

SpecRes == InitRes /\ [][NextRes]_vars

\* ------------------------------- SpecServer: POST /action requests
\* The server of hud-bridge: one shared ServerState behind an RwLock and a
\* broadcast channel; each request runs handle_action, one step of it at a
\* time, interleaved with the other requests.  The fingerprint of the
\* ServerState is the FingerprintState above, its seat_resolver the
\* SeatResolver above.

\* FingerprintState::new(12) in ServerState::new (server.rs:27)
ServerDimension == 12

\* the POST /action requests in flight
Requests == {"r1", "r2", "r3"}

\* What POKERNOW_REGEX captures from the action_string of a request: None
\* when the entry does not match, else the groups reset, name, id, action
\* and amount.
Rows ==
    {None,
     Some([reset |-> TRUE, name |-> "", id |-> None, action |-> "", amount |-> None]),
     Some([reset |-> FALSE, name |-> "Alice", id |-> Some("p1"),
           action |-> "calls", amount |-> Some("90")]),
     Some([reset |-> FALSE, name |-> "Bob", id |-> Some("p2"),
           action |-> "raises", amount |-> Some("200.5")]),
     Some([reset |-> FALSE, name |-> "Bob", id |-> Some("p2"),
           action |-> "folds", amount |-> None])}

\* amt_str.parse::<f64>().map(|f| f as u64): the digits before the '.'
DigitOf(ch) == CHOOSE d \in 0..9 : ToString(d) = ch
RECURSIVE parse_amount(_, _, _)
parse_amount(amt_str, i, acc) ==
    IF i > Len(amt_str) \/ SubSeq(amt_str, i, i) = "." THEN acc
    ELSE parse_amount(amt_str, i + 1, acc * 10 + DigitOf(SubSeq(amt_str, i, i)))

\* pokernow::parse_row, from the captures on
parse_row(caps) ==
    IF caps = None THEN None
    ELSE LET c == caps[1]
         IN IF c.reset
            THEN Some([player_id |-> "system_reset", action_type |-> "Reset", amount |-> 0])
            ELSE IF c.action \notin {"folds", "checks", "calls", "bets", "raises", "posts"}
            THEN None
            ELSE LET action_type ==
                         CASE c.action = "folds" -> "Fold"
                           [] c.action = "checks" -> "Check"
                           [] c.action = "calls" -> "Call"
                           [] c.action = "bets" -> "Bet"
                           [] c.action = "raises" -> "Raise"
                           [] c.action = "posts" -> "Bet"
                     amount == IF c.amount = None THEN 0
                               ELSE parse_amount(c.amount[1], 1, 0)
                     final_amount == IF action_type \in {"Fold", "Check"} THEN 0 ELSE amount
                 IN Some([player_id |-> player_id_of(c.name, c.id),
                          action_type |-> action_type, amount |-> final_amount])

\* SeatResolver::get_player_name(seat)
get_player_name(r, seat) ==
    IF \E name \in DOMAIN r.player_to_seat : r.player_to_seat[name] = seat
    THEN CHOOSE name \in DOMAIN r.player_to_seat : r.player_to_seat[name] = seat
    ELSE "Seat " \o ToString(seat)

format_action_type(action_type) ==
    CASE action_type = "Fold" -> "fold"
      [] action_type = "Check" -> "check"
      [] action_type = "Call" -> "call"
      [] action_type = "Bet" -> "bet"
      [] action_type = "Raise" -> "raise"
      [] action_type = "ReRaise" -> "reraise"
      [] action_type = "AllIn" -> "allin"
      [] action_type = "Reset" -> "reset"

\* format!("Seat {} {} (${})", ..)
action_desc(action) ==
    "Seat " \o ToString(action.seat) \o " " \o format_action_type(action.action_type)
        \o " ($" \o ToString(action.amount) \o ")"

\* the player metrics map of a response, keyed by seat_num.to_string()
player_metrics_map(stats) ==
    [key \in {ToString(seat_num) : seat_num \in DOMAIN stats} |->
        LET seat_num == CHOOSE n \in DOMAIN stats : ToString(n) = key
        IN [name |-> stats[seat_num].name, writhe |-> stats[seat_num].writhe,
            complexity |-> stats[seat_num].complexity]]

\* ServerState::new(reset_on_fold)
ServerStateNew(reset_on_fold) ==
    [fingerprint |-> new(ServerDimension), seat_resolver |-> SeatResolverNew,
     current_seat |-> None, step |-> 0, reset_on_fold |-> reset_on_fold]

\* the ServerState behind the lock
ServerState ==
    [fingerprint |-> FpState, seat_resolver |-> Resolver,
     current_seat |-> server.current_seat, step |-> server.step,
     reset_on_fold |-> server.reset_on_fold]

\* the FingerprintResponse process_action builds from the state at its end
FingerprintResponse(S, action) ==
    [step |-> S.step,
     action |-> action_desc(action),
     global |-> [writhe |-> S.fingerprint.writhe,
                 burau |-> burau_trace(S.fingerprint.burau_matrix, S.fingerprint.dimension)],
     players |-> player_metrics_map(S.fingerprint.player_stats)]

\* the FingerprintResponse of a Reset action
ResetResponse(S) ==
    [step |-> 0,
     action |-> "--- HAND RESET ---",
     global |-> [writhe |-> 0,
                 burau |-> burau_trace(S.fingerprint.burau_matrix, S.fingerprint.dimension)],
     players |-> <<>>]

\* for gen in &generators { state.fingerprint.update_for_seat(gen, seat, name) }
RECURSIVE TrackAll(_, _, _, _)
TrackAll(fp, generators, seat, name) ==
    IF generators = <<>> THEN fp
    ELSE TrackAll(update_for_seat(fp, Head(generators), seat, name),
                  Tail(generators), seat, name)

\* process_action(action, state) of the server run as a whole: the
\* ServerState after it and the response it returns
ServerProcessAction(S, action) ==
    IF action.action_type = "Reset"
    THEN LET S1 == [S EXCEPT !.fingerprint = reset(@), !.current_seat = None, !.step = 0]
         IN [state |-> S1, response |-> ResetResponse(S1)]
    ELSE LET S1 == IF S.reset_on_fold /\ action.action_type = "Fold"
                   THEN [S EXCEPT !.fingerprint = reset(@), !.current_seat = None]
                   ELSE S
             from_seat == IF S1.current_seat = None THEN action.seat ELSE S1.current_seat[1]
             generators == expand_action(from_seat, action.seat, S1.fingerprint.dimension)
             player_name == get_player_name(S1.seat_resolver, action.seat)
             S2 == [S1 EXCEPT !.current_seat = Some(action.seat),
                              !.fingerprint = TrackAll(@, generators, action.seat, player_name),
                              !.step = @ + 1]
         IN [state |-> S2, response |-> FingerprintResponse(S2, action)]

\* what a response shows of a ServerState: step, writhe, trace magnitude
\* and the per-player map
Snapshot(S) ==
    [step |-> S.step,
     writhe |-> S.fingerprint.writhe,
     burau |-> burau_trace(S.fingerprint.burau_matrix, S.fingerprint.dimension),
     players |-> player_metrics_map(S.fingerprint.player_stats)]

SetHandler(req, h) == handler' = [handler EXCEPT ![req] = h]

InitServer ==
    /\ \E reset_on_fold \in BOOLEAN :
          /\ server = [current_seat |-> None, step |-> 0, reset_on_fold |-> reset_on_fold]
          /\ serial = ServerStateNew(reset_on_fold)
    /\ dimension = new(ServerDimension).dimension
    /\ writhe = new(ServerDimension).writhe
    /\ crossing_count = new(ServerDimension).crossing_count
    /\ burau_matrix = new(ServerDimension).burau_matrix
    /\ player_stats = new(ServerDimension).player_stats
    /\ lastOp = [op |-> "new", gen |-> NoGen, kind |-> "None", ret |-> 0,
                 dim |-> ServerDimension,
                 pre |-> [writhe |-> 0, crossing_count |-> 0, tracked |-> 0]]
    /\ player_to_seat = SeatResolverNew.player_to_seat
    /\ next_seat = SeatResolverNew.next_seat
    /\ history = <<>>
    /\ lock = None
    /\ handler \in [Requests ->
                      [pc : {"start"}, row : Rows, action : {None}, generators : {<<>>},
                       player_name : {""}, response : {None}, status : {0}]]
    /\ channel = <<>>
    /\ applied = <<>>
    /\ NormIdle
    /\ MapIdle
    /\ CallIdle
    /\ FlowIdle
    /\ SesIdle
    /\ WsIdle

\* mutant: the guard is handed out while another request holds it
AcquireWrite_NoExclusion(req) ==
    /\ handler[req].pc = "start"
    /\ lock' = Some(req)
    /\ SetHandler(req, [handler[req] EXCEPT !.pc = "parse"])
    /\ UNCHANGED <<fpVars, normVars, mapVars, callVars, flowVars, sesVars, wsVars, resVars,
                   server, channel, applied, serial>>

\* let mut state_guard = state.write().await
AcquireWrite(req) ==
    /\ handler[req].pc = "start"
    /\ lock = None
    /\ lock' = Some(req)
    /\ SetHandler(req, [handler[req] EXCEPT !.pc = "parse"])
    /\ UNCHANGED <<fpVars, normVars, mapVars, callVars, flowVars, sesVars, wsVars, resVars,
                   server, channel, applied, serial>>

\* mutant: a string that does not parse is answered like a Reset
ParseActionString_AnswersFailure(req) ==
    /\ handler[req].pc = "parse"
    /\ LET parsed == parse_row(handler[req].row)
       IN IF parsed = None
          THEN /\ SetHandler(req, [handler[req] EXCEPT
                      !.pc = "send", !.response = Some(ResetResponse(ServerState))])
               /\ UNCHANGED <<player_to_seat, next_seat, applied, serial>>
          ELSE /\ \E o \in get_or_assign_seat(Resolver, parsed[1].player_id) :
                     /\ player_to_seat' = o.r.player_to_seat
                     /\ next_seat' = o.r.next_seat
                     /\ SetHandler(req, [handler[req] EXCEPT
                            !.pc = "process",
                            !.action = Some([seat |-> o.seat,
                                             action_type |-> parsed[1].action_type,
                                             amount |-> parsed[1].amount])])
               /\ \E g \in get_or_assign_seat(serial.seat_resolver, parsed[1].player_id) :
                     LET whole == ServerProcessAction(
                                     [serial EXCEPT !.seat_resolver = g.r],
                                     [seat |-> g.seat,
                                      action_type |-> parsed[1].action_type,
                                      amount |-> parsed[1].amount])
                     IN /\ serial' = whole.state
                        /\ applied' = Append(applied, [req |-> req,
                                                       snapshot |-> Snapshot(whole.state)])
    /\ UNCHANGED <<fpVars, history, normVars, mapVars, callVars, flowVars, sesVars, wsVars,
                   server, lock, channel>>

\* parse_action_string(&req.action_string, &mut *state_guard): Err ends
\* the request with 400, Ok gives the Action.  `serial` runs the whole
\* action here, on its own ServerState.
ParseActionString(req) ==
    /\ handler[req].pc = "parse"
    /\ LET parsed == parse_row(handler[req].row)
       IN IF parsed = None
          THEN /\ SetHandler(req, [handler[req] EXCEPT !.pc = "return", !.status = 400])
               /\ UNCHANGED <<player_to_seat, next_seat, applied, serial>>
          ELSE /\ \E o \in get_or_assign_seat(Resolver, parsed[1].player_id) :
                     /\ player_to_seat' = o.r.player_to_seat
                     /\ next_seat' = o.r.next_seat
                     /\ SetHandler(req, [handler[req] EXCEPT
                            !.pc = "process",
                            !.action = Some([seat |-> o.seat,
                                             action_type |-> parsed[1].action_type,
                                             amount |-> parsed[1].amount])])
               /\ \E g \in get_or_assign_seat(serial.seat_resolver, parsed[1].player_id) :
                     LET whole == ServerProcessAction(
                                     [serial EXCEPT !.seat_resolver = g.r],
                                     [seat |-> g.seat,
                                      action_type |-> parsed[1].action_type,
                                      amount |-> parsed[1].amount])
                     IN /\ serial' = whole.state
                        /\ applied' = Append(applied, [req |-> req,
                                                       snapshot |-> Snapshot(whole.state)])
    /\ UNCHANGED <<fpVars, history, normVars, mapVars, callVars, flowVars, sesVars, wsVars,
                   server, lock, channel>>

\* mutant: a Reset action leaves current_seat as it was
ProcessBegin_KeepsSeat(req) ==
    /\ handler[req].pc = "process"
    /\ LET action == handler[req].action[1]
       IN IF action.action_type = "Reset"
          THEN LET fp == reset(FpState)
               IN /\ SetFpState(fp)
                  /\ server' = [server EXCEPT !.step = 0]
                  /\ SetHandler(req, [handler[req] EXCEPT
                         !.pc = "send",
                         !.response = Some(ResetResponse([fingerprint |-> fp]))])
          ELSE LET fold_reset == server.reset_on_fold /\ action.action_type = "Fold"
                   fp == IF fold_reset THEN reset(FpState) ELSE FpState
                   current_seat == IF fold_reset THEN None ELSE server.current_seat
                   from_seat == IF current_seat = None THEN action.seat ELSE current_seat[1]
               IN /\ SetFpState(fp)
                  /\ server' = [server EXCEPT !.current_seat = Some(action.seat)]
                  /\ SetHandler(req, [handler[req] EXCEPT
                         !.pc = "loop",
                         !.generators = expand_action(from_seat, action.seat, fp.dimension),
                         !.player_name = get_player_name(Resolver, action.seat)])
    /\ UNCHANGED <<lastOp, normVars, mapVars, callVars, flowVars, sesVars, wsVars, resVars,
                   lock, channel, applied, serial>>

\* process_action up to the loop over the generators; a Reset action
\* returns its response from here
ProcessBegin(req) ==
    /\ handler[req].pc = "process"
    /\ LET action == handler[req].action[1]
       IN IF action.action_type = "Reset"
          THEN LET fp == reset(FpState)
               IN /\ SetFpState(fp)
                  /\ server' = [server EXCEPT !.current_seat = None, !.step = 0]
                  /\ SetHandler(req, [handler[req] EXCEPT
                         !.pc = "send",
                         !.response = Some(ResetResponse([fingerprint |-> fp]))])
          ELSE LET fold_reset == server.reset_on_fold /\ action.action_type = "Fold"
                   fp == IF fold_reset THEN reset(FpState) ELSE FpState
                   current_seat == IF fold_reset THEN None ELSE server.current_seat
                   from_seat == IF current_seat = None THEN action.seat ELSE current_seat[1]
               IN /\ SetFpState(fp)
                  /\ server' = [server EXCEPT !.current_seat = Some(action.seat)]
                  /\ SetHandler(req, [handler[req] EXCEPT
                         !.pc = "loop",
                         !.generators = expand_action(from_seat, action.seat, fp.dimension),
                         !.player_name = get_player_name(Resolver, action.seat)])
    /\ UNCHANGED <<lastOp, normVars, mapVars, callVars, flowVars, sesVars, wsVars, resVars,
                   lock, channel, applied, serial>>

\* one turn of the loop: update_for_seat(gen, action.seat.value(), player_name)
ProcessGenerator(req) ==
    /\ handler[req].pc = "loop"
    /\ handler[req].generators # <<>>
    /\ crossing_count < MaxCrossings
    /\ SetFpState(update_for_seat(FpState, Head(handler[req].generators),
                                  handler[req].action[1].seat, handler[req].player_name))
    /\ SetHandler(req, [handler[req] EXCEPT !.generators = Tail(@)])
    /\ UNCHANGED <<lastOp, normVars, mapVars, callVars, flowVars, sesVars, wsVars, resVars,
                   server, lock, channel, applied, serial>>

\* after the loop: state.step += 1 and the response built from the state
ProcessFinish(req) ==
    /\ handler[req].pc = "loop"
    /\ handler[req].generators = <<>>
    /\ server' = [server EXCEPT !.step = @ + 1]
    /\ SetHandler(req, [handler[req] EXCEPT
           !.pc = "send",
           !.response = Some(FingerprintResponse([ServerState EXCEPT !.step = @ + 1],
                                                 handler[req].action[1]))])
    /\ UNCHANGED <<fpVars, normVars, mapVars, callVars, flowVars, sesVars, wsVars, resVars,
                   lock, channel, applied, serial>>

\* let _ = tx.send(response.clone())
Broadcast(req) ==
    /\ handler[req].pc = "send"
    /\ channel' = Append(channel, [req |-> req, response |-> handler[req].response[1]])
    /\ SetHandler(req, [handler[req] EXCEPT !.pc = "reply", !.status = 200])
    /\ UNCHANGED <<fpVars, normVars, mapVars, callVars, flowVars, sesVars, wsVars, resVars,
                   server, lock, applied, serial>>

\* handle_action returns its reply; state_guard is dropped
Return(req) ==
    /\ handler[req].pc \in {"reply", "return"}
    /\ lock' = None
    /\ SetHandler(req, [handler[req] EXCEPT !.pc = "done"])
    /\ UNCHANGED <<fpVars, normVars, mapVars, callVars, flowVars, sesVars, wsVars, resVars,
                   server, channel, applied, serial>>

HandleAction(req) ==
    \/ AcquireWrite(req)
    \/ ParseActionString(req)
    \/ ProcessBegin(req)
    \/ ProcessGenerator(req)
    \/ ProcessFinish(req)
    \/ Broadcast(req)
    \/ Return(req)

NextServer == \E req \in Requests : HandleAction(req)

SpecServer == InitServer /\ [][NextServer]_vars

\* ------------------------------- SpecSession: one session, row by row
\* The rows of a PokerNow log handled one after the other, either by the
\* CLI (run_cli with --format pokernow: parse_row, get_or_assign_seat,
\* process_action of cli.rs, one line of stdout) or by the server serving
\* one request at a time (handle_action: parse_action_string,
\* process_action of server.rs, the response).  `call` holds the last
\* action processed and the current_seat it found.
MaxRows == 4         \* most rows read in one session

\* mutant: the reset on a Fold leaves current_seat as it was
cli_process_action_FoldKeepsSeat(S, action) ==
    IF action.action_type = "Reset"
    THEN [state |-> [S EXCEPT !.fingerprint = reset(@), !.current_seat = None, !.step = 0],
          line |-> [text |-> "--- HAND RESET ---", json |-> None]]
    ELSE LET S1 == IF S.reset_on_fold /\ action.action_type = "Fold"
                   THEN [S EXCEPT !.fingerprint = reset(@)]
                   ELSE S
             from_seat == IF S1.current_seat = None THEN action.seat ELSE S1.current_seat[1]
             generators == expand_action(from_seat, action.seat, S1.fingerprint.dimension)
             S2 == [S1 EXCEPT !.current_seat = Some(action.seat),
                              !.fingerprint = ApplyAll(@, generators),
                              !.step = @ + 1]
         IN [state |-> S2,
             line |-> [text |-> "",
                       json |-> Some([step |-> S2.step,
                                      action |-> action_desc(action),
                                      writhe |-> S2.fingerprint.writhe,
                                      burau_trace_magnitude |->
                                          burau_trace(S2.fingerprint.burau_matrix,
                                                      S2.fingerprint.dimension)])]]

\* process_action of cli.rs run on the locals of run_cli: the locals after
\* it and the line it prints, the text of a plain line or the StepOutput
\* that a JSON line serialises
cli_process_action(S, action) ==
    IF action.action_type = "Reset"
    THEN [state |-> [S EXCEPT !.fingerprint = reset(@), !.current_seat = None, !.step = 0],
          line |-> [text |-> "--- HAND RESET ---", json |-> None]]
    ELSE LET S1 == IF S.reset_on_fold /\ action.action_type = "Fold"
                   THEN [S EXCEPT !.fingerprint = reset(@), !.current_seat = None]
                   ELSE S
             from_seat == IF S1.current_seat = None THEN action.seat ELSE S1.current_seat[1]
             generators == expand_action(from_seat, action.seat, S1.fingerprint.dimension)
             S2 == [S1 EXCEPT !.current_seat = Some(action.seat),
                              !.fingerprint = ApplyAll(@, generators),
                              !.step = @ + 1]
         IN [state |-> S2,
             line |-> [text |-> "",
                       json |-> Some([step |-> S2.step,
                                      action |-> action_desc(action),
                                      writhe |-> S2.fingerprint.writhe,
                                      burau_trace_magnitude |->
                                          burau_trace(S2.fingerprint.burau_matrix,
                                                      S2.fingerprint.dimension)])]]

\* the state of the session: the locals of run_cli, or the ServerState
SessionState ==
    [fingerprint |-> FpState, seat_resolver |-> Resolver,
     current_seat |-> session.current_seat, step |-> session.step,
     reset_on_fold |-> session.reset_on_fold]

SetSessionState(S) ==
    /\ SetFpState(S.fingerprint)
    /\ player_to_seat' = S.seat_resolver.player_to_seat
    /\ next_seat' = S.seat_resolver.next_seat
    /\ session' = [session EXCEPT !.current_seat = S.current_seat, !.step = S.step,
                                  !.rows = @ + 1]

InitSession ==
    /\ \E mode \in {"cli", "server"}, reset_on_fold \in BOOLEAN :
          session = [mode |-> mode, current_seat |-> None, step |-> 0,
                     reset_on_fold |-> reset_on_fold, rows |-> 0]
    /\ output = <<>>
    /\ dimension = new(ServerDimension).dimension
    /\ writhe = new(ServerDimension).writhe
    /\ crossing_count = new(ServerDimension).crossing_count
    /\ burau_matrix = new(ServerDimension).burau_matrix
    /\ player_stats = new(ServerDimension).player_stats
    /\ lastOp = [op |-> "new", gen |-> NoGen, kind |-> "None", ret |-> 0,
                 dim |-> ServerDimension,
                 pre |-> [writhe |-> 0, crossing_count |-> 0, tracked |-> 0]]
    /\ player_to_seat = SeatResolverNew.player_to_seat
    /\ next_seat = SeatResolverNew.next_seat
    /\ history = <<>>
    /\ call = [op |-> "new"]
    /\ named = <<>>
    /\ attributed = <<>>
    /\ NormIdle
    /\ MapIdle
    /\ FlowIdle
    /\ SrvIdle
    /\ WsIdle

\* a row that parse_row filters out: the CLI skips it, the server replies 400
SkipRow(row) ==
    /\ session.rows < MaxRows
    /\ parse_row(row) = None
    /\ session' = [session EXCEPT !.rows = @ + 1]
    /\ UNCHANGED <<fpVars, normVars, mapVars, callVars, flowVars, resVars, srvVars, wsVars, output>>

\* one turn of the loop of run_cli over the PokerNow rows
CliRow(row) ==
    /\ session.mode = "cli"
    /\ session.rows < MaxRows
    /\ parse_row(row) # None
    /\ LET parsed == parse_row(row)[1]
       IN \E o \in get_or_assign_seat(Resolver, parsed.player_id) :
             LET action == [seat |-> o.seat, action_type |-> parsed.action_type,
                            amount |-> parsed.amount]
                 r == cli_process_action([SessionState EXCEPT !.seat_resolver = o.r], action)
             IN /\ r.state.fingerprint.crossing_count <= MaxCrossings
                /\ SetSessionState(r.state)
                /\ output' = Append(output, r.line)
                /\ call' = [op |-> "process_action", action |-> action,
                            current_seat |-> session.current_seat]
    /\ UNCHANGED <<lastOp, history, named, attributed, normVars, mapVars, flowVars, srvVars, wsVars>>

\* one request handled by handle_action from the lock to the reply
ServerRow(row) ==
    /\ session.mode = "server"
    /\ session.rows < MaxRows
    /\ parse_row(row) # None
    /\ LET parsed == parse_row(row)[1]
       IN \E o \in get_or_assign_seat(Resolver, parsed.player_id) :
             LET action == [seat |-> o.seat, action_type |-> parsed.action_type,
                            amount |-> parsed.amount]
                 r == ServerProcessAction([SessionState EXCEPT !.seat_resolver = o.r], action)
             IN /\ r.state.fingerprint.crossing_count <= MaxCrossings
                /\ SetSessionState(r.state)
                /\ output' = Append(output, r.response)
                /\ call' = [op |-> "process_action", action |-> action,
                            current_seat |-> session.current_seat]
    /\ UNCHANGED <<lastOp, history, named, attributed, normVars, mapVars, flowVars, srvVars, wsVars>>

SessionSkip == \E row \in Rows : SkipRow(row)
SessionCli == \E row \in Rows : CliRow(row)
SessionServer == \E row \in Rows : ServerRow(row)

NextSession == SessionSkip \/ SessionCli \/ SessionServer

SpecSession == InitSession /\ [][NextSession]_vars

\* --------------- SpecWs: the broadcast channel and its WebSocket clients
\* broadcast::channel::<FingerprintResponse>(100) in start_server: the number
\* of responses the channel retains, scaled down.  A receiver that is
\* ChannelCapacity or more responses behind has lost the oldest one it has not
\* received.
ChannelCapacity == 2
\* most responses sent in one run: enough to overrun the channel twice
MaxSends == ChannelCapacity + 2
\* the WebSocket connections that may be opened
Clients == {"w1", "w2"}

\* the locals of handle_ws and of the task it spawns
WsClient(pc, next, msg, forwarded, socket_open, lagged, subscribed_at) ==
    [pc |-> pc, next |-> next, msg |-> msg, forwarded |-> forwarded,
     socket_open |-> socket_open, lagged |-> lagged,
     subscribed_at |-> subscribed_at]

SetWs(c, w) ==
    ws' = [x \in (DOMAIN ws) \cup {c} |-> IF x = c THEN w ELSE ws[x]]

InitWs ==
    /\ sent = 0
    /\ ws = <<>>
    /\ FpIdle
    /\ NormIdle
    /\ MapIdle
    /\ CallIdle /\ FlowIdle /\ ResIdle /\ SrvIdle /\ SesIdle

\* handle_ws: let mut rx = tx.subscribe(); tokio::spawn(..).  The receiver
\* starts after the responses already sent.
HandleWs(c) ==
    /\ c \notin DOMAIN ws
    /\ SetWs(c, WsClient("recv", sent + 1, 0, <<>>, TRUE, FALSE, sent))
    /\ UNCHANGED <<sent, fpVars, normVars, mapVars, callVars, flowVars, resVars,
                   srvVars, sesVars>>

\* handle_action of a successful request: let _ = tx.send(response.clone())
TxSend ==
    /\ sent < MaxSends
    /\ sent' = sent + 1
    /\ UNCHANGED <<ws, fpVars, normVars, mapVars, callVars, flowVars, resVars,
                   srvVars, sesVars>>

\* the receiver of client c has lost the response it is at
RxLagged(c) == ws[c].next + ChannelCapacity <= sent

\* while let Ok(msg) = rx.recv().await: the call returns when a response is
\* there; Err(RecvError::Lagged) ends the loop and with it the task
RxRecv(c) ==
    /\ c \in DOMAIN ws
    /\ ws[c].pc = "recv"
    /\ ws[c].next <= sent
    /\ IF RxLagged(c)
       THEN SetWs(c, [ws[c] EXCEPT !.pc = "ended", !.lagged = TRUE])
       ELSE SetWs(c, [ws[c] EXCEPT !.pc = "send", !.msg = ws[c].next,
                                   !.next = ws[c].next + 1])
    /\ UNCHANGED <<sent, fpVars, normVars, mapVars, callVars, flowVars, resVars,
                   srvVars, sesVars>>

\* serde_json::to_string(&msg), which succeeds on a FingerprintResponse, then
\* if ws_tx.send(Message::text(json)).await.is_err() { break }
WsSend(c) ==
    /\ c \in DOMAIN ws
    /\ ws[c].pc = "send"
    /\ IF ws[c].socket_open
       THEN SetWs(c, [ws[c] EXCEPT !.pc = "recv",
                                   !.forwarded = Append(ws[c].forwarded, ws[c].msg)])
       ELSE SetWs(c, [ws[c] EXCEPT !.pc = "ended"])
    /\ UNCHANGED <<sent, fpVars, normVars, mapVars, callVars, flowVars, resVars,
                   srvVars, sesVars>>

\* the peer closes the connection: the socket accepts no more writes
SocketCloses(c) ==
    /\ c \in DOMAIN ws
    /\ ws[c].socket_open
    /\ SetWs(c, [ws[c] EXCEPT !.socket_open = FALSE])
    /\ UNCHANGED <<sent, fpVars, normVars, mapVars, callVars, flowVars, resVars,
                   srvVars, sesVars>>

Subscribe == \E c \in Clients : HandleWs(c)
Receive == \E c \in Clients : RxRecv(c)
Forward == \E c \in Clients : WsSend(c)
Disconnect == \E c \in Clients : SocketCloses(c)

NextWs == Subscribe \/ TxSend \/ Receive \/ Forward \/ Disconnect

SpecWs == InitWs /\ [][NextWs]_vars

\* the runtime keeps polling a spawned task: a recv that can return and a
\* socket write that can be made are eventually made.  Nothing obliges a
\* request to arrive, a client to connect or a peer to close.
SpecWsFair ==
    SpecWs /\ \A c \in Clients : WF_vars(RxRecv(c)) /\ WF_vars(WsSend(c))

\* ====================================================================
\* Properties
\* ====================================================================
Zero == [e \in Exps |-> 0]
One == [e \in Exps |-> IF e = 0 THEN 1 ELSE 0]
IsIdentity(M, d) ==
    /\ DOMAIN M = 0..(d - 1)
    /\ \A i \in 0..(d - 1) :
          /\ DOMAIN M[i] = 0..(d - 1)
          /\ \A j \in 0..(d - 1) : M[i][j] = IF i = j THEN One ELSE Zero

\* C1: FingerprintState::new(d), and reset() after any sequence of update /
\* update_for_seat / process_action calls, leave writhe = 0, crossing_count = 0,
\* the Burau matrix equal to the d x d identity (its trace is d, so
\* burau_trace_magnitude() = d), an empty per-seat map and dimension() = d.
C1_FreshAfterNewOrReset ==
    lastOp.op \in {"new", "reset"} =>
        /\ writhe = 0
        /\ crossing_count = 0
        /\ IsIdentity(burau_matrix, lastOp.dim)
        /\ burau_trace(burau_matrix, dimension) = [e \in Exps |-> IF e = 0 THEN lastOp.dim ELSE 0]
        /\ DOMAIN player_stats = {}
        /\ dimension = lastOp.dim

\* reset() called on a state with crossings, a non-zero writhe and a tracked seat
C1_Witness ==
    /\ lastOp.op = "reset"
    /\ lastOp.pre.crossing_count = MaxCrossings
    /\ lastOp.pre.writhe # 0
    /\ lastOp.pre.tracked = 1
    /\ dimension >= 2

\* C2: update(g) changes writhe by exactly +1 for Sigma(k) and by exactly -1
\* for InverseSigma(k), and crossing_count by exactly +1, for every index k,
\* k = 0 and k >= dimension included.
C2_UpdateCounters ==
    lastOp.op = "update" =>
        /\ lastOp.gen.sign = "Sigma" => writhe = lastOp.pre.writhe + 1
        /\ lastOp.gen.sign = "InverseSigma" => writhe = lastOp.pre.writhe - 1
        /\ crossing_count = lastOp.pre.crossing_count + 1

\* update(InverseSigma(k)) with k >= dimension on a state that had a crossing
C2_Witness ==
    /\ lastOp.op = "update"
    /\ lastOp.gen.sign = "InverseSigma"
    /\ lastOp.gen.k >= dimension
    /\ lastOp.pre.crossing_count = 1
    /\ writhe = lastOp.pre.writhe - 1

\* C3: update(g) with index k = 0 or k >= dimension leaves the Burau matrix
\* unchanged; for 1 <= k < dimension the matrix M becomes M * U_k (Sigma) or
\* M * U_k^-1 (InverseSigma), U_k being the identity outside the block at
\* rows/columns (k-1, k): only columns k-1 and k of M change, to
\*   Sigma:        col k-1 := (1-t) col k-1 + col k,   col k := t col k-1
\*   InverseSigma: col k-1 := (1/t) col k,   col k := col k-1 + (1 - 1/t) col k
C3_UpdateMatrix ==
    [][lastOp'.op = "update" =>
        LET k == lastOp'.gen.k
            d == dimension
            M == burau_matrix
            tp == [e \in Exps |-> IF e = 1 THEN 1 ELSE 0]
            ti == [e \in Exps |-> IF e = -1 THEN 1 ELSE 0]
        IN IF k = 0 \/ k >= d
           THEN burau_matrix' = M
           ELSE /\ DOMAIN burau_matrix' = 0..(d - 1)
                /\ \A r \in 0..(d - 1) :
                     /\ DOMAIN burau_matrix'[r] = 0..(d - 1)
                     /\ \A c \in 0..(d - 1) :
                          burau_matrix'[r][c] =
                            IF lastOp'.gen.sign = "Sigma"
                            THEN (IF c = k - 1
                                  THEN CAdd(CMul(CSub(One, tp), M[r][k - 1]), M[r][k])
                                  ELSE IF c = k THEN CMul(tp, M[r][k - 1])
                                  ELSE M[r][c])
                            ELSE (IF c = k - 1 THEN CMul(ti, M[r][k])
                                  ELSE IF c = k
                                  THEN CAdd(M[r][k - 1], CMul(CSub(One, ti), M[r][k]))
                                  ELSE M[r][c])
    ]_vars

\* update(Sigma(2)) in dimension 3 on a matrix that is no longer the identity
C3_Witness ==
    /\ lastOp.op = "update"
    /\ lastOp.gen = Sigma(2)
    /\ dimension = 3
    /\ lastOp.pre.crossing_count = 1
    /\ lastOp.pre.writhe = -1
    /\ burau_matrix[0][0] # One
    /\ burau_matrix[2][2] = Zero

\* C4: for every k in 1..dimension-1 and every reachable matrix M,
\* update(Sigma(k)) then update(InverseSigma(k)), and the two in the opposite
\* order, return the Burau matrix to M (from the identity: to the identity).
C4_InversePair ==
    \A k \in 1..(dimension - 1) :
        /\ update(update(FpState, Sigma(k)), InverseSigma(k)).burau_matrix = burau_matrix
        /\ update(update(FpState, InverseSigma(k)), Sigma(k)).burau_matrix = burau_matrix

\* update(Sigma(1)) then update(InverseSigma(1)) from the identity were run
C4_Witness ==
    /\ lastOp.op = "update"
    /\ lastOp.gen = InverseSigma(1)
    /\ dimension = 3
    /\ crossing_count = 2
    /\ writhe = 0
    /\ IsIdentity(burau_matrix, 3)

\* two adjacent generators that are Sigma(k) / InverseSigma(k), either order
AdjacentInversePair(w) ==
    \E i \in 1..(Len(w) - 1) : w[i].k = w[i + 1].k /\ w[i].sign # w[i + 1].sign

\* C5: after normalize(word) returns, no two adjacent generators of the word
\* are Sigma(k) / InverseSigma(k) with the same k.
C5_NoAdjacentInverses ==
    nPc = "done" => ~AdjacentInversePair(word)

\* the complex sequence of test_normalize_complex_sequence reduced to s1 s1
C5_Witness ==
    /\ nPc = "done"
    /\ nInput = <<Sigma(1), Sigma(2), Sigma(1), InverseSigma(1), InverseSigma(2), Sigma(1)>>
    /\ word = <<Sigma(1), Sigma(1)>>

\* C6: normalize is idempotent: normalizing the word normalize returned
\* changes nothing.
C6_Idempotent ==
    nPc = "done" => normalize(word) = word

\* a word that was shortened, then normalized again
C6_Witness ==
    /\ nPc = "done"
    /\ Len(nInput) = MaxWordLen
    /\ Len(word) = 2
    /\ nPasses = 3
    /\ normalize(word) = word

Inverse(g) == IF g.sign = "Sigma" THEN InverseSigma(g.k) ELSE Sigma(g.k)
\* w is some word followed by its reversed, generator-wise inverted copy
IsMirror(w) ==
    /\ Len(w) % 2 = 0
    /\ \A i \in 1..(Len(w) \div 2) : w[Len(w) + 1 - i] = Inverse(w[i])

\* C7: normalize applied to w followed by the reversed, inverted copy of w
\* yields the empty word (cascading cancellation).
C7_MirrorCancels ==
    (nPc = "done" /\ IsMirror(nInput)) => word = <<>>

\* [Sigma(1), Sigma(2), InverseSigma(2), InverseSigma(1)]: two removing
\* passes and the pass that finds nothing
C7_Witness ==
    /\ nPc = "done"
    /\ nInput = <<Sigma(1), Sigma(2), InverseSigma(2), InverseSigma(1)>>
    /\ nPasses = 3
    /\ word = <<>>

\* single left-to-right stack reduction: push, or pop when the top is the inverse
RECURSIVE StackReduce(_, _)
StackReduce(stack, rest) ==
    IF rest = <<>> THEN stack
    ELSE IF stack # <<>> /\ stack[Len(stack)] = Inverse(Head(rest))
         THEN StackReduce(SubSeq(stack, 1, Len(stack) - 1), Tail(rest))
         ELSE StackReduce(Append(stack, Head(rest)), Tail(rest))

\* C8: the multi-pass normalize returns exactly the result of the single
\* stack reduction of its input.
C8_EqualsStackReduction ==
    nPc = "done" => word = StackReduce(<<>>, nInput)

\* the word of test_normalize_partial_cancellation, extended: several passes
C8_Witness ==
    /\ nPc = "done"
    /\ nPasses >= 3
    /\ Len(word) >= 1
    /\ Len(word) < Len(nInput)
    /\ word = StackReduce(<<>>, nInput)

\* C9: for from, to >= 1 and total >= 1, with f = safe_seat(from, total) and
\* t = safe_seat(to, total), expand_action returns [Sigma(f), .., Sigma(t-1)]
\* when f < t, [InverseSigma(f-1), .., InverseSigma(t)] when f > t and the
\* empty sequence when f = t: |t - f| generators along the linear path.
C9_ExpandAction ==
    (mPc = "expand_action" /\ mFrom >= 1 /\ mTo >= 1 /\ mTotal >= 1) =>
        LET f == safe_seat(mFrom, mTotal)
            t == safe_seat(mTo, mTotal)
        IN /\ f < t => mGens = [n \in 1..(t - f) |-> Sigma(f + n - 1)]
           /\ f > t => mGens = [n \in 1..(f - t) |-> InverseSigma(f - n)]
           /\ f = t => mGens = <<>>
           /\ Len(mGens) = IF t >= f THEN t - f ELSE f - t

\* 16 -> 11 at a table of 9 is 7 -> 2: five steps down, not four steps around
C9_Witness ==
    /\ mPc = "expand_action"
    /\ mFrom = 16
    /\ mTo = 11
    /\ mTotal = 9
    /\ mGens = <<InverseSigma(6), InverseSigma(5), InverseSigma(4),
                 InverseSigma(3), InverseSigma(2)>>

\* C10: for seat >= 1 and total >= 1, safe_seat(seat, total) is the value in
\* [1, total] congruent to seat modulo total (the identity on [1, total];
\* 10 -> 1, 12 -> 3, 18 -> 9 for total 9); it is 1 when total = 0.
C10_SafeSeat ==
    mPc = "safe_seat" =>
        /\ mTotal = 0 => mSeat = 1
        /\ mTotal >= 1 =>
              /\ mSeat \in 1..mTotal
              /\ \E q \in 0..mFrom : mFrom = q * mTotal + mSeat
              /\ mFrom <= mTotal => mSeat = mFrom
        /\ (mTotal = 9 /\ mFrom = 10) => mSeat = 1
        /\ (mTotal = 9 /\ mFrom = 12) => mSeat = 3
        /\ (mTotal = 9 /\ mFrom = 18) => mSeat = 9

\* safe_seat(18, 9) returned 9
C10_Witness ==
    /\ mPc = "safe_seat"
    /\ mFrom = 18
    /\ mTotal = 9
    /\ mSeat = 9

\* C11: update_for_seat(g, seat, name) with seat = 0 or seat > dimension
\* creates or modifies no per-seat entry and still applies the global
\* update(g) (writhe, crossing_count, matrix); after any sequence of
\* operations every key of the per-seat map lies in [1, dimension].
C11_OutOfRangeSeat ==
    [][/\ (call'.op = "update_for_seat" /\ (call'.seat = 0 \/ call'.seat > dimension)) =>
            /\ player_stats' = player_stats
            /\ writhe' = IF call'.gen.sign = "Sigma" THEN writhe + 1 ELSE writhe - 1
            /\ crossing_count' = crossing_count + 1
            /\ burau_matrix' = update(FpState, call'.gen).burau_matrix
            /\ dimension' = dimension
       /\ \A s \in DOMAIN player_stats' : 1 <= s /\ s <= dimension'
    ]_vars

\* seat 1 was tracked by a first call; a second call names seat dimension + 1
C11_Witness ==
    /\ call.op = "update_for_seat"
    /\ call.seat = dimension + 1
    /\ call.gen = Sigma(1)
    /\ dimension >= 2
    /\ writhe = 2
    /\ crossing_count = 2
    /\ DOMAIN player_stats = {1}
    /\ player_stats[1].writhe = 1

\* C12: process_action with an action of kind Reset performs reset()
\* (identity matrix, zero counters, empty per-seat map) and returns 0,
\* whatever the prior state and whatever current_seat is passed.
C12_ResetAction ==
    (call.op = "process_action" /\ call.action.action_type = "Reset") =>
        /\ call.ret = 0
        /\ writhe = 0
        /\ crossing_count = 0
        /\ IsIdentity(burau_matrix, lastOp.dim)
        /\ DOMAIN player_stats = {}
        /\ dimension = lastOp.dim

\* a Reset action, passed a current_seat other than its own seat, on a state
\* at the cap with a non-zero writhe and a tracked seat
C12_Witness ==
    /\ call.op = "process_action"
    /\ call.action.action_type = "Reset"
    /\ call.action.seat = 1
    /\ call.current_seat = Some(2)
    /\ call.pre.crossing_count = MaxCrossings
    /\ call.pre.writhe # 0
    /\ call.pre.tracked = 1
    /\ crossing_count = 0

\* the matrix after the generators of a word are applied, first to last
RECURSIVE MatrixAfter(_, _, _)
MatrixAfter(M, gens, d) ==
    IF gens = <<>> THEN M
    ELSE MatrixAfter(IF Head(gens).sign = "Sigma"
                     THEN apply_sigma_matrix(M, Head(gens).k, d)
                     ELSE apply_inverse_sigma_matrix(M, Head(gens).k, d),
                     Tail(gens), d)

\* C13: for a non-Reset action, process_action(action, current_seat) expands
\* the movement from current_seat if supplied, otherwise from the action's own
\* seat (zero generators, whole state unchanged), applies each generator with
\* update in order, and returns n = |safe_seat(action.seat, dimension) -
\* safe_seat(source, dimension)|; crossing_count grows by exactly n and the
\* per-seat map is unchanged.
C13_ProcessAction ==
    [][(call'.op = "process_action" /\ call'.action.action_type # "Reset") =>
        LET a == call'.action
            cs == call'.current_seat
            source == IF cs = None THEN a.seat ELSE cs[1]
            f == safe_seat(source, dimension)
            t == safe_seat(a.seat, dimension)
            n == IF t >= f THEN t - f ELSE f - t
            gens == IF f < t THEN [i \in 1..n |-> Sigma(f + i - 1)]
                    ELSE [i \in 1..n |-> InverseSigma(f - i)]
        IN /\ call'.ret = n
           /\ crossing_count' = crossing_count + n
           /\ writhe' = IF f < t THEN writhe + n ELSE writhe - n
           /\ burau_matrix' = MatrixAfter(burau_matrix, gens, dimension)
           /\ player_stats' = player_stats
           /\ dimension' = dimension
           /\ cs = None =>
                 /\ n = 0
                 /\ writhe' = writhe
                 /\ crossing_count' = crossing_count
                 /\ burau_matrix' = burau_matrix
    ]_vars

\* seat 1 tracked, then a Raise by seat 4 (mapped to 1) with current_seat 2 in
\* dimension 3: one generator, InverseSigma(1)
C13_Witness ==
    /\ call.op = "process_action"
    /\ call.action.action_type = "Raise"
    /\ dimension = 3
    /\ call.action.seat = 4
    /\ call.current_seat = Some(2)
    /\ call.ret = 1
    /\ call.pre.tracked = 1
    /\ crossing_count = 2
    /\ writhe = 0
    /\ DOMAIN player_stats = {1}
    /\ player_stats[1].writhe = 1

\* C14: between resets crossing_count never decreases under update,
\* update_for_seat or process_action and grows by exactly one per generator
\* applied; once any generator has been applied (crossing_count > 0), the
\* just-Reset state (identity matrix, writhe 0, crossing_count 0, empty
\* per-seat map) is reached again only through reset() or a Reset action.
C14_OnlyResetReturns ==
    [][/\ lastOp'.op \in {"update", "update_for_seat"} =>
            crossing_count' = crossing_count + 1
       /\ (lastOp'.op = "process_action" /\ lastOp'.kind # "Reset") =>
            /\ crossing_count' = crossing_count + lastOp'.ret
            /\ crossing_count' >= crossing_count
       /\ (/\ crossing_count > 0
           /\ writhe' = 0
           /\ crossing_count' = 0
           /\ IsIdentity(burau_matrix', dimension')
           /\ DOMAIN player_stats' = {}) =>
            \/ lastOp'.op = "reset"
            \/ lastOp'.op = "process_action" /\ lastOp'.kind = "Reset"
    ]_vars

\* Sigma(1), then a Raise moving 2 -> 1: the matrix is the identity again, the
\* writhe 0 and the per-seat map empty, yet crossing_count is 2
C14_Witness ==
    /\ lastOp.op = "process_action"
    /\ lastOp.kind = "Raise"
    /\ lastOp.ret = 1
    /\ lastOp.pre.crossing_count = 1
    /\ dimension = 2
    /\ writhe = 0
    /\ IsIdentity(burau_matrix, dimension)
    /\ DOMAIN player_stats = {}
    /\ crossing_count = 2

\* sum over the flow of |s_i' - s_(i-1)'|, s' the seat mapped by safe_seat
RECURSIVE PathLength(_, _, _)
PathLength(seats, T, i) ==
    IF i >= Len(seats) THEN 0
    ELSE LET a == safe_seat(seats[i], T)
             b == safe_seat(seats[i + 1], T)
         IN (IF b >= a THEN b - a ELSE a - b) + PathLength(seats, T, i + 1)

CountSign(w, sign) == Cardinality({i \in 1..Len(w) : w[i].sign = sign})

ToyHandFlow == <<1, 3, 2, 4, 1>>
ToyHandWord ==
    <<Sigma(1), Sigma(2), InverseSigma(2), Sigma(2), Sigma(3),
      InverseSigma(3), InverseSigma(2), InverseSigma(1)>>

\* C15: chaining expand_action along an action flow s0 -> .. -> sn with total
\* seats T and applying every generator with update to a fresh
\* FingerprintState(T) gives crossing_count equal to the word length (the sum
\* of |s_i' - s_(i-1)'| over the mapped seats) and writhe equal to
\* #Sigma - #InverseSigma; for T = 4 and the flow 1->3->2->4->1 the word is
\* [Sigma(1), Sigma(2), InverseSigma(2), Sigma(2), Sigma(3), InverseSigma(3),
\* InverseSigma(2), InverseSigma(1)], writhe = 0 and crossing_count = 8.
C15_FlowCounters ==
    /\ fPc \in {"build", "applied"} => Len(braid_word) = PathLength(flow, dimension, 1)
    /\ fPc = "applied" =>
          /\ crossing_count = Len(braid_word)
          /\ writhe = CountSign(braid_word, "Sigma") - CountSign(braid_word, "InverseSigma")
          /\ (dimension = 4 /\ flow = ToyHandFlow) =>
                /\ braid_word = ToyHandWord
                /\ writhe = 0
                /\ crossing_count = 8

\* the toy hand, applied
C15_Witness ==
    /\ fPc = "applied"
    /\ dimension = TOTAL_SEATS
    /\ flow = ToyHandFlow
    /\ braid_word = ToyHandWord
    /\ crossing_count = 8
    /\ writhe = 0

\* C18: seat stability: for any sequence of get_or_assign_seat calls within a
\* session, a given player-id string is resolved to the same Seat on every call.
C18_SeatStability ==
    \A i, j \in 1..Len(history) :
        history[i].player_id = history[j].player_id =>
            history[i].seat = history[j].seat

\* the same in the sessions fed by parse_row, whose ids all hold a '_'
C18_RowIdsStable ==
    \A i, j \in 1..Len(history) :
        (/\ history[i].via = "parse_row"
         /\ history[j].via = "parse_row"
         /\ history[i].player_id = history[j].player_id) =>
            history[i].seat = history[j].seat

\* the players (name/id pairs) of the rows so far, in order of first appearance
RECURSIVE Players(_, _)
Players(h, i) ==
    IF i = 0 THEN <<>>
    ELSE LET before == Players(h, i - 1)
         IN IF h[i].via = "parse_row"
               /\ \A n \in 1..Len(before) : before[n] # h[i].player
            THEN Append(before, h[i].player)
            ELSE before

\* C19: player ids produced by parse_row for distinct players (different
\* name/id pairs, the 'name_generated' ids of players logged without an id
\* included) are resolved to distinct seats, assigned sequentially 1, 2, 3, ..
\* in order of first appearance.
C19_DistinctSequentialSeats ==
    (\A i \in 1..Len(history) : history[i].via = "parse_row") =>
        LET players == Players(history, Len(history))
        IN \A i \in 1..Len(history) :
              \E n \in 1..Len(players) :
                  players[n] = history[i].player /\ history[i].seat = n

\* C20: update_for_seat with an in-range seat: a seat without an entry gets
\* one with the supplied name; a non-empty supplied name overwrites the stored
\* name, an empty one leaves an existing stored name unchanged; so the stored
\* name of a seat is the last non-empty name supplied for it since the last
\* reset (empty if none).
C20_StoredName ==
    [][ /\ (call'.op = "update_for_seat" /\ call'.seat \in 1..dimension) =>
            LET s == call'.seat
                n == call'.name
            IN /\ s \in DOMAIN player_stats'
               /\ s \notin DOMAIN player_stats => player_stats'[s].name = n
               /\ n # "" => player_stats'[s].name = n
               /\ (n = "" /\ s \in DOMAIN player_stats) =>
                      player_stats'[s].name = player_stats[s].name
               /\ \A x \in DOMAIN player_stats' \ {s} :
                      /\ x \in DOMAIN player_stats
                      /\ player_stats'[x].name = player_stats[x].name
        /\ \A x \in DOMAIN player_stats' : player_stats'[x].name = named'[x]
      ]_vars

\* seat 1 was named "Alex [S1]" and the call just made for it supplied no
\* name: the stored name is kept
C20_Witness ==
    /\ call.op = "update_for_seat"
    /\ call.seat = 1
    /\ call.name = ""
    /\ 1 \in DOMAIN player_stats
    /\ player_stats[1].name = "Alex [S1]"
    /\ crossing_count = 2

\* a request that is inside handle_action, between taking the write guard
\* and dropping it
InHandler(req) == handler[req].pc \in {"parse", "process", "loop", "send", "reply", "return"}

\* C17: handle_action holds the exclusive write lock on the ServerState from
\* before parsing until after the response is built and broadcast, so
\* concurrent POST /action requests are processed one at a time: every
\* response's step, writhe, trace magnitude and per-player map are a snapshot
\* of the state after a whole number of actions, and the responses are
\* broadcast in the order in which their actions were applied.
C17_SerialisedRequests ==
    /\ \A req \in Requests : InHandler(req) => lock = Some(req)
    /\ Len(channel) <= Len(applied)
    /\ \A i \in 1..Len(channel) :
          /\ channel[i].req = applied[i].req
          /\ [step |-> channel[i].response.step,
              writhe |-> channel[i].response.global.writhe,
              burau |-> channel[i].response.global.burau,
              players |-> channel[i].response.players] = applied[i].snapshot

\* three requests were answered and broadcast, the last one as the third
\* action of a hand in which a crossing was made
C17_Witness ==
    /\ Len(channel) = 3
    /\ channel[3].response.step = 3
    /\ channel[3].response.global.writhe = 1
    /\ channel[3].response.players # <<>>
    /\ \A req \in Requests : handler[req].pc = "done"

\* the sum of the writhes stored in a per-seat map
RECURSIVE SumWrithe(_, _)
SumWrithe(stats, seats) ==
    IF seats = {} THEN 0
    ELSE LET s == CHOOSE x \in seats : TRUE
         IN stats[s].writhe + SumWrithe(stats, seats \ {s})

\* C21: after any sequence of update_for_seat calls since the last reset the
\* writhe stored for a seat is #Sigma - #InverseSigma over the generators
\* attributed to it, a call for a seat leaves the entries of the other seats
\* unchanged, and if every call used a seat in [1, dimension] the per-seat
\* writhes sum to the global writhe.
C21_SeatWrithe ==
    [][ /\ \A s \in DOMAIN player_stats' :
              player_stats'[s].writhe = attributed'[s].sigma - attributed'[s].inverse
        /\ \A s \in 1..dimension' :
              s \notin DOMAIN player_stats' =>
                  attributed'[s].sigma + attributed'[s].inverse = 0
        /\ call'.op = "update_for_seat" =>
              \A s \in DOMAIN player_stats' \ {call'.seat} :
                  s \in DOMAIN player_stats /\ player_stats'[s] = player_stats[s]
        /\ (\A s \in DOMAIN attributed' \ (1..dimension') :
                attributed'[s].sigma + attributed'[s].inverse = 0)
              => SumWrithe(player_stats', DOMAIN player_stats') = writhe'
      ]_vars

\* two seats are tracked, one with a Sigma and one with an InverseSigma, and
\* no call used a seat outside [1, dimension]
C21_Witness ==
    /\ call.op = "update_for_seat"
    /\ DOMAIN player_stats = {1, 2}
    /\ player_stats[1].writhe = 1
    /\ player_stats[2].writhe = -1
    /\ writhe = 0
    /\ crossing_count = 2

\* the number of non-Reset actions among applied[1..i] after the last Reset
RECURSIVE StepsSinceReset(_)
StepsSinceReset(i) ==
    IF i = 0 THEN 0
    ELSE IF handler[applied[i].req].action[1].action_type = "Reset" THEN 0
    ELSE 1 + StepsSinceReset(i - 1)

\* the action applied just before the action of req is a Reset
AfterReset(req) ==
    \E i \in 2..Len(applied) :
        /\ applied[i].req = req
        /\ handler[applied[i - 1].req].action[1].action_type = "Reset"

\* no request is inside process_action
Quiescent == \A req \in Requests : handler[req].pc \notin {"process", "loop"}

\* C22: in the server session a Reset action resets the fingerprint, sets
\* current_seat to None and step to 0 and returns a response with step 0,
\* writhe 0 and no players; every other processed action increments step by
\* exactly 1 and sets current_seat to its seat; so step is the number of
\* non-Reset actions processed since the last Reset action, and the first
\* action after a Reset contributes zero generators.
C22_ServerStep ==
    [][ /\ \A req \in Requests :
              /\ (handler[req].pc = "process" /\ handler'[req].pc = "send") =>
                     /\ handler[req].action[1].action_type = "Reset"
                     /\ writhe' = 0 /\ crossing_count' = 0
                     /\ burau_matrix' = Identity(dimension)
                     /\ player_stats' = <<>>
                     /\ dimension' = dimension
                     /\ server'.current_seat = None
                     /\ server'.step = 0
                     /\ handler'[req].response[1].step = 0
                     /\ handler'[req].response[1].global.writhe = 0
                     /\ handler'[req].response[1].players = <<>>
              /\ (handler[req].pc = "process" /\ handler'[req].pc = "loop") =>
                     /\ handler[req].action[1].action_type # "Reset"
                     /\ server'.current_seat = Some(handler[req].action[1].seat)
                     /\ server'.step = server.step
                     /\ AfterReset(req) => handler'[req].generators = <<>>
              /\ (handler[req].pc = "loop" /\ handler'[req].pc = "send") =>
                     /\ server'.step = server.step + 1
                     /\ server'.current_seat = Some(handler[req].action[1].seat)
                     /\ handler'[req].response[1].step = server'.step
              /\ (handler[req].pc = "loop" /\ handler'[req].pc = "loop") =>
                     server' = server
        /\ Quiescent' => server'.step = StepsSinceReset(Len(applied))'
      ]_vars

\* an action, then a Reset, then the first action of the next hand, by
\* another player than the first, were all processed
C22_Witness ==
    /\ Len(channel) = 3
    /\ channel[1].response.step = 1
    /\ channel[2].response.action = "--- HAND RESET ---"
    /\ channel[3].response.step = 1
    /\ channel[3].response.action = "Seat 3 raise ($200)"
    /\ server.step = 1
    /\ server.current_seat = Some(3)
    /\ crossing_count = 0

\* the step just taken processed an action (it is call'.action)
Processed == Len(output') = Len(output) + 1

\* the writhe reported for the last action processed
ReportedWrithe(out) ==
    IF session.mode = "cli" THEN out[Len(out)].json[1].writhe
    ELSE out[Len(out)].global.writhe

\* C23: with reset_on_fold enabled, in the server and in the CLI, a Fold
\* resets the fingerprint and clears current_seat before the expansion: the
\* Fold contributes no generator, the state reported for it has writhe 0 and
\* crossing_count 0, and the next action is expanded from the folding seat;
\* with the flag disabled a Fold is expanded from the previous seat like any
\* other action.
C23_ResetOnFold ==
    [][ Processed =>
          LET action == call'.action
              d == dimension
              fold_reset == session.reset_on_fold /\ action.action_type = "Fold"
          IN /\ fold_reset =>
                   /\ writhe' = 0
                   /\ crossing_count' = 0
                   /\ burau_matrix' = Identity(d)
                   /\ session'.current_seat = Some(action.seat)
                   /\ ReportedWrithe(output') = 0
             /\ (/\ session.reset_on_fold
                 /\ call.op = "process_action"
                 /\ call.action.action_type = "Fold"
                 /\ action.action_type \notin {"Fold", "Reset"}) =>
                   LET generators == expand_action(call.action.seat, action.seat, d)
                   IN /\ crossing_count' = Len(generators)
                      /\ writhe' = CountSign(generators, "Sigma")
                                      - CountSign(generators, "InverseSigma")
                      /\ burau_matrix' = MatrixAfter(Identity(d), generators, d)
             /\ (~fold_reset /\ action.action_type # "Reset") =>
                   LET from_seat == IF session.current_seat = None THEN action.seat
                                    ELSE session.current_seat[1]
                       generators == expand_action(from_seat, action.seat, d)
                   IN /\ crossing_count' = crossing_count + Len(generators)
                      /\ writhe' = writhe + CountSign(generators, "Sigma")
                                      - CountSign(generators, "InverseSigma")
                      /\ burau_matrix' = MatrixAfter(burau_matrix, generators, d)
                      /\ ReportedWrithe(output') = writhe'
      ]_vars

\* CLI, flag enabled: seat 1 called, seat 2 folded, and the call of seat 1
\* that followed was expanded from seat 2
C23_Witness ==
    /\ session.mode = "cli"
    /\ session.reset_on_fold
    /\ Len(output) = 3
    /\ output[2].json # None
    /\ output[2].json[1].action = "Seat 2 fold ($0)"
    /\ output[2].json[1].writhe = 0
    /\ output[3].json # None
    /\ output[3].json[1].action = "Seat 1 call ($90)"
    /\ output[3].json[1].writhe = -1
    /\ crossing_count = 1

\* C24: in CLI mode with reset_on_fold enabled, a Fold action is treated as
\* a reset marker and does not increment the step counter.
C24_FoldKeepsStep ==
    [][ (/\ Processed
         /\ session.mode = "cli"
         /\ session.reset_on_fold
         /\ call'.action.action_type = "Fold") =>
            session'.step = session.step
      ]_vars

\* the product of the matrices of the generators of a word, first to last,
\* every generator taken as a valid one
RECURSIVE ProductOf(_, _, _)
ProductOf(M, gens, d) ==
    IF gens = <<>> THEN M
    ELSE ProductOf(MatMul(M, IF Head(gens).sign = "Sigma"
                             THEN SigmaMatrix(Head(gens).k, d)
                             ELSE InverseSigmaMatrix(Head(gens).k, d), d),
                   Tail(gens), d)

\* C25: for every from, to >= 1 and total >= 0 every generator returned by
\* expand_action(from, to, total) has its index in [1, total-1]; so the
\* generators applied by FingerprintState::process_action never take the
\* no-op branch of the matrix update, and counters and matrix do not diverge.
C25_ExpandedIndices ==
    /\ (mPc = "expand_action" /\ mFrom >= 1 /\ mTo >= 1) =>
          \A i \in 1..Len(mGens) : 1 <= mGens[i].k /\ mGens[i].k <= mTotal - 1
    /\ mPc = "process_action" =>
          LET generators == expand_action(mFrom, mTo, mTotal)
          IN /\ dimension = mTotal
             /\ \A i \in 1..Len(generators) :
                   1 <= generators[i].k /\ generators[i].k < dimension
             /\ crossing_count = Len(generators)
             /\ writhe = CountSign(generators, "Sigma")
                           - CountSign(generators, "InverseSigma")
             /\ burau_matrix = ProductOf(Identity(dimension), generators, dimension)

\* process_action moved from seat 4, which is seat 1 of a table of 3, to
\* seat 3: two crossings, both applied to the matrix
C25_Witness ==
    /\ mPc = "process_action"
    /\ mTotal = 3 /\ mFrom = 4 /\ mTo = 3
    /\ crossing_count = 2
    /\ burau_matrix = ProductOf(Identity(3), <<Sigma(1), Sigma(2)>>, 3)
    /\ burau_matrix # Identity(3)

\* C26: for any seat sequence s0, .., sn and total T, normalize applied to
\* the concatenation of expand_action(s_(i-1), s_i, T) is
\* expand_action(s0, sn, T); the word of a flow that returns to its (mapped)
\* first seat normalizes to the empty word; and the writhe of the word is
\* safe_seat(sn) - safe_seat(s0).
C26_FlowNormalizes ==
    LET s0 == flow[1]
        sn == flow[Len(flow)]
        signed == CountSign(braid_word, "Sigma") - CountSign(braid_word, "InverseSigma")
    IN /\ fPc \in {"build", "normalized", "applied"} =>
             signed = safe_seat(sn, dimension) - safe_seat(s0, dimension)
       /\ fPc = "applied" => writhe = safe_seat(sn, dimension) - safe_seat(s0, dimension)
       /\ fPc = "normalized" =>
             /\ braid_word = expand_action(s0, sn, dimension)
             /\ safe_seat(sn, dimension) = safe_seat(s0, dimension) => braid_word = <<>>

\* the toy hand 1 -> 3 -> 2 -> 4 -> 1 with four seats, normalized
C26_Witness ==
    /\ fPc = "normalized"
    /\ dimension = 4
    /\ flow = ToyHandFlow
    /\ braid_word = <<>>

\* C27: after any sequence of get_or_assign_seat calls, the renames by ID
\* part included, no two stored player ids map to the same seat, the seats
\* assigned are exactly 1..max_seat(), and player_count() = max_seat() =
\* next_seat - 1.
C27_ResolverBijection ==
    /\ \A a, b \in DOMAIN player_to_seat :
          player_to_seat[a] = player_to_seat[b] => a = b
    /\ {player_to_seat[a] : a \in DOMAIN player_to_seat} = 1..max_seat(Resolver)
    /\ player_count(Resolver) = max_seat(Resolver)
    /\ max_seat(Resolver) = next_seat - 1

\* a player id took over the seat of another by its ID part, and a further
\* player got the next seat
C27_Witness ==
    /\ Len(history) = 3
    /\ history[1].player_id # history[2].player_id
    /\ history[1].seat = 1 /\ history[2].seat = 1
    /\ history[3].seat = 2
    /\ history[1].player_id \notin DOMAIN player_to_seat
    /\ player_count(Resolver) = 2

\* the ServerState behind the lock is left as it was
ServerStateUnchanged ==
    /\ FpState' = FpState
    /\ Resolver' = Resolver
    /\ server' = server

\* C28: if the action string of a POST /action request does not parse
\* (parse_row returns None), handle_action replies with status 400, broadcasts
\* nothing and leaves the whole ServerState (fingerprint, seat resolver,
\* current_seat, step) unchanged.
C28_ParseFailure ==
    [][ \A req \in Requests :
           parse_row(handler[req].row) = None =>
              /\ handler'[req] # handler[req] =>
                     /\ ServerStateUnchanged
                     /\ channel' = channel
              /\ handler'[req].pc = "done" => handler'[req].status = 400
              /\ \A i \in 1..Len(channel') : channel'[i].req # req
      ]_vars

\* a request whose string does not parse was answered 400 after two actions
\* of other requests had been processed and broadcast
C28_Witness ==
    /\ \E req \in Requests :
          /\ parse_row(handler[req].row) = None
          /\ handler[req].pc = "done"
          /\ handler[req].status = 400
          /\ Len(applied) = 2
          /\ applied[1].req # req /\ applied[2].req # req
    /\ Len(channel) = 2
    /\ server.step = 2
    /\ crossing_count = 1
    /\ lock = None

\* #Sigma - #InverseSigma of a word
SignedSum(w) == CountSign(w, "Sigma") - CountSign(w, "InverseSigma")

\* one iteration of `while changed` has run
PassDone == nPasses' = nPasses + 1

\* C29: normalize terminates on every finite word: each pass either removes
\* nothing (and the loop stops) or shortens the word by an even, positive
\* number of generators; the result is never longer than the input, has the
\* same length parity and the same signed generator sum as the input, and a
\* word with no adjacent inverse pair is returned unchanged.
C29_NormalizeTerminates ==
    /\ <>(nPc = "done")
    /\ [][ PassDone =>
             \/ /\ word' = word
                /\ ~changed'
             \/ /\ Len(word') < Len(word)
                /\ (Len(word) - Len(word')) % 2 = 0
                /\ changed'
          ]_vars
    /\ [](nPc = "done" =>
             /\ Len(word) <= Len(nInput)
             /\ Len(word) % 2 = Len(nInput) % 2
             /\ SignedSum(word) = SignedSum(nInput)
             /\ (~AdjacentInversePair(nInput) => word = nInput))

\* a word of full length that took three shortening passes and a last pass
\* that removed nothing, and a word without an inverse pair returned as it was
C29_Witness ==
    /\ nPc = "done"
    /\ \/ /\ Len(nInput) = MaxWordLen
          /\ nPasses = 4
          /\ word = <<>>
       \/ /\ nInput = <<Sigma(1), Sigma(2), Sigma(1)>>
          /\ nPasses = 1
          /\ word = nInput

\* response m was written to the socket of client c
Forwarded(c, m) ==
    /\ c \in DOMAIN ws
    /\ \E i \in 1..Len(ws[c].forwarded) : ws[c].forwarded[i] = m

\* the socket of client c accepts no more writes
SocketClosed(c) == c \in DOMAIN ws /\ ~ws[c].socket_open

\* the receiver of client c was told that it lagged
HasLagged(c) == c \in DOMAIN ws /\ ws[c].lagged

\* client c subscribed before response m was sent
SubscribedBefore(c, m) ==
    /\ c \in DOMAIN ws
    /\ ws[c].subscribed_at < m
    /\ m <= sent

\* what a client was forwarded is in the order of sending
InProcessingOrder ==
    \A c \in DOMAIN ws : \A i, j \in 1..Len(ws[c].forwarded) :
        i < j => ws[c].forwarded[i] < ws[c].forwarded[j]

\* C30: every FingerprintResponse of a successful POST /action is eventually
\* forwarded, in processing order, to every WebSocket client that subscribed
\* before it was sent and whose socket still accepts writes, a client that
\* has fallen more than the channel capacity behind included.
C30_EveryResponseForwarded ==
    /\ []InProcessingOrder
    /\ \A c \in Clients : \A m \in 1..MaxSends :
          [](SubscribedBefore(c, m) =>
                <>(Forwarded(c, m) \/ SocketClosed(c)))

\* what does hold: a response is forwarded unless the socket closed or the
\* receiver lagged, and what was forwarded is an unbroken run of responses
\* from the first one after the subscription
C30_ForwardedUnlessLagged ==
    /\ [](\A c \in DOMAIN ws : \A i \in 1..Len(ws[c].forwarded) :
             ws[c].forwarded[i] = ws[c].subscribed_at + i)
    /\ \A c \in Clients : \A m \in 1..MaxSends :
          [](SubscribedBefore(c, m) =>
                <>(Forwarded(c, m) \/ SocketClosed(c) \/ HasLagged(c)))

\* a client whose socket is open has been dropped after it lagged, with
\* responses sent after its subscription that it was never forwarded
C30_LaggedClientDropped ==
    \E c \in DOMAIN ws :
        /\ ws[c].pc = "ended"
        /\ ws[c].lagged
        /\ ws[c].socket_open
        /\ ws[c].forwarded = <<>>
        /\ ws[c].subscribed_at = 0
        /\ sent = ChannelCapacity + 1

====
